---- MODULE Spec2Model ----
(***************************************************************************)
(* A model of backend_burger's users / auth endpoints and the cache-aside  *)
(* layer they share (Spec), and of the items listing request of the Path   *)
(* of Exile catalogue: filter/sort parsing, query chaining, pagination and *)
(* the response envelope (SpecItems).                                      *)
(*                                                                         *)
(* Every awaited call of a handler is one step of a request, so requests   *)
(* interleave exactly at the suspension points of the event loop.          *)
(***************************************************************************)
EXTENDS Integers, Sequences, FiniteSets, TLC

(***************************************************************************)
(* Bounds of the model.                                                    *)
(***************************************************************************)
MaxUsers == 2
MaxReqs == 2
MaxStarted == 3
MaxItems == 3
MaxTokens == 2
MaxPage == 2
MaxItemReqs == 2
MaxArguments == 2
MaxTotal == 101
HalfHour == 1800
MaxDays == 2
MaxTicks == 3
MaxHeld == 2

UserIds == 1..MaxUsers
ReqIds == 1..MaxReqs
Names == {"n0"}
Emails == {"e1", "e2"}

(***************************************************************************)
(* Program constants.                                                      *)
(***************************************************************************)
SINGLE_USER_CACHE_DURATION == 3600
USERS_CACHE_DURATION == 300
MAXIMUM_ITEMS_PER_PAGE == 500
MAX_VALUE_LENGTH == 200
ACCESS_TOKEN_DURATION == 3600
REFRESH_TOKEN_DURATION == 1296000
ONE_DAY == 86400
CRON_OFFSET == 300

VARIABLES
    users,      \* the users collection: id -> document
    blacklist,  \* the blacklisted_tokens collection: set of access tokens
    cache,      \* the redis store: key -> entry
    issued,     \* access tokens handed to clients by /auth/login
    nextId,     \* the next object id the store generates
    reqs,       \* the requests in flight: slot -> request
    started,    \* number of requests received so far
    last,       \* history: key -> the bytes the latest get-or-cache call on the key
                \* returned, while the store and the key's entry stay as it left them
    upd,        \* history: key -> the serialized user the latest completed update of
                \* the key's user was asked to write, while no later operation has
                \* written, deleted or expired the key
    notFound,   \* history: ids whose latest single-user read ended in 404
    listing,    \* the redis entry of the collection key `users`
    ireq,       \* the items / categories request being served
    icache,     \* the redis store as the items endpoint sees it: key -> entry
    call,       \* one call of a parser or of the pagination helper: its
                \* arguments and, once it returned, its result
    now,        \* the wall clock, in seconds
    ticks,      \* number of half-hour steps the clock has taken
    session,    \* the user's session document: refresh token and its expiration
    held,       \* the access tokens the client holds
    cachedUntil,\* the instant the redis entry users:{id} expires; 0 when absent
    revoked,    \* the blacklisted_tokens collection with expiration times
    delete_older_than, \* the cutoff the scheduled deletion job was given
    ran,        \* the instant of the job's latest run; 0 before the first
    outcome     \* the latest request through get_current_user and its status

uvars == <<users, blacklist, cache, issued, nextId, reqs, started, last, upd, notFound>>
ivars == <<ireq, icache>>
cvars == <<now, ticks, session, held, cachedUntil, revoked, delete_older_than, ran, outcome>>
vars == <<users, blacklist, cache, issued, nextId, reqs, started, last, upd, notFound,
          listing, ireq, icache, call, now, ticks, session, held, cachedUntil,
          revoked, delete_older_than, ran, outcome>>

(***************************************************************************)
(* Values.                                                                 *)
(***************************************************************************)
NoUser == [id |-> 0, name |-> "", email |-> "", role |-> ""]
NoToken == [sub |-> 0, n |-> 0]
BadToken == [sub |-> 0, n |-> 99]
NoError == [type |-> "", message |-> ""]
NoBytes == <<>>
NoEntry == [val |-> NoBytes, ex |-> 0]

\* config/constants/exceptions.py: status code -> error type
ErrorType(code) ==
    CASE code = 400 -> "invalid_input"
      [] code = 401 -> "invalid_credentials"
      [] code = 403 -> "insufficient_permission"
      [] code = 404 -> "resource_not_found"
      [] code = 422 -> "validation_error"
      [] OTHER -> "unknown_error"

\* redis_key = f"{app.USER_CACHE_KEY}:{user_id}"
UserKey(u) == <<"users", u>>
UserKeys == {UserKey(u) : u \in UserIds}

(***************************************************************************)
(* The response envelope: schemas/responses.py.                            *)
(***************************************************************************)
\* BaseResponse(data=..., key=...): `key` is stored on the model, error is None
BaseResponse(data, key) == [data |-> data, error |-> NoError, key |-> key]

\* BaseResponse.model_dump(): `key` is declared exclude=True and the validator
\* that nested the data under it is commented out, so the dump is {data, error}
ModelDumpNoNesting(resp) == [data |-> resp.data, error |-> resp.error]
ModelDump(resp) == ModelDumpNoNesting(resp)

\* orjson.dumps / orjson.loads: bytes are a tagged value, so that encoding twice
\* differs from encoding once
JsonDumps(v) == <<"json", v>>
JsonLoads(b) == b[2]

\* utils/services.py serialize_response, applied to a BaseResponse
SerializeResponse(resp) == JsonDumps(ModelDump(resp))

\* the single-user payload every users endpoint caches: BaseResponse(data=user)
SerializeUser(doc) == SerializeResponse(BaseResponse(doc, "none"))

\* AppResponse.__init__: content.model_dump() is called on whatever is handed in,
\* so a bytes payload raises AttributeError; a BaseResponse is dumped and
\* rendered (orjson.dumps) once
AppResponseInit(isBytes, content) ==
    IF isBytes
    THEN [raised |-> TRUE, body |-> NoBytes]
    ELSE [raised |-> FALSE, body |-> JsonDumps(ModelDump(content))]

\* config/middleware.py ExceptionHandlerMiddleware: an unhandled exception
\* becomes the generic 500 envelope
StatusOf(resp) == IF resp.raised THEN 500 ELSE 200

(***************************************************************************)
(* The cache: utils/services.py cache_data / get_cached_data /             *)
(* delete_cached_data on a reachable redis.                                *)
(***************************************************************************)
CacheGet(c, key) == c[key].val
CacheSet(c, key, bytes, ex) == [c EXCEPT ![key] = [val |-> bytes, ex |-> ex]]
CacheDel(c, key) == [c EXCEPT ![key] = NoEntry]

(***************************************************************************)
(* Requests.                                                               *)
(***************************************************************************)
\* history kept with a get-or-cache call: what `last`, `upd` and `notFound` held
\* for its key when its cache read was answered
NoSeen == [last |-> NoBytes, upd |-> NoBytes, nf |-> FALSE]

Idle ==
    [kind |-> "idle", pc |-> "idle", seq |-> 0, tok |-> NoToken, uid |-> 0,
     name |-> "", email |-> "", pw |-> FALSE, cur |-> NoUser, doc |-> NoUser,
     payload |-> NoBytes, status |-> 0, detail |-> "", trace |-> <<>>, seen |-> NoSeen]

Free(r) == reqs[r].pc \in {"idle", "done"}

\* the handler returns or an exception leaves it: the request ends with
\* `code` and its locals are dropped
Raise(req, code, ev) ==
    [req EXCEPT !.pc = "done", !.status = code, !.trace = Append(@, ev), !.seq = 0,
                !.name = "", !.email = "", !.pw = FALSE, !.cur = NoUser, !.doc = NoUser]

\* raise HTTPException(code, detail)
RaiseDetail(req, code, ev, detail) == [Raise(req, code, ev) EXCEPT !.detail = detail]

Step(req, pc, ev) == [req EXCEPT !.pc = pc, !.trace = Append(@, ev)]

\* handle_invalid_input_exception: the error of the 400 response, with the
\* detail of the exception as its message when there is one
handle_invalid_input_exception(status_code, detail) ==
    [type |-> ErrorType(status_code),
     message |-> IF detail # "" THEN detail ELSE "Input is invalid."]

\* auth_utils.parse_bearer_token: the token was signed by this server
ValidToken(t) == t \in issued

EmailTaken(email, self) ==
    \E u \in UserIds : u # self /\ users[u] # NoUser /\ users[u].email = email

ClearAll == [k \in UserKeys |-> NoBytes]

\* the server accepts a request into the lowest free slot; the records of the
\* requests answered before are dropped
Receive(r, req) ==
    /\ started < MaxStarted
    /\ Free(r)
    /\ \A q \in ReqIds : q < r => ~Free(q)
    /\ reqs' = [q \in ReqIds |->
                  IF q = r THEN [req EXCEPT !.seq = started + 1]
                  ELSE IF Free(q) THEN Idle ELSE reqs[q]]
    /\ started' = started + 1
    /\ UNCHANGED <<users, blacklist, cache, issued, nextId, last, upd, notFound>>

(***************************************************************************)
(* Dependencies: dependencies.py.                                          *)
(***************************************************************************)
\* the first step of the handler body, after the dependencies resolved
FirstStep(kind) ==
    CASE kind = "get_user" -> "cache_get"
      [] kind = "get_users" -> "cache_get_all"
      [] OTHER -> "current_user"

\* a variant that finds no blacklist record
GetBlacklistedTokenNone(token) == FALSE

\* services/auth.py get_blacklisted_token: a record with this access token
GetBlacklistedToken(token) == token \in blacklist

\* check_access_token: 403 unless the token parses and is not blacklisted
CheckAccessToken(r) ==
    /\ reqs[r].pc = "auth"
    /\ reqs' = [reqs EXCEPT ![r] =
                  IF ~ValidToken(@.tok) \/ GetBlacklistedToken(@.tok)
                  THEN Raise(@, 403, "auth_403")
                  ELSE Step(@, FirstStep(@.kind), "auth")]
    /\ UNCHANGED <<users, blacklist, cache, issued, nextId, started, last, upd, notFound>>

\* a variant that lets every caller through
HasAccessAnyone(user, input_user_id) == TRUE

\* check_access_to_user_resource
HasAccess(user, input_user_id) == user.role = "admin" \/ user.id = input_user_id

\* get_current_user reads the caller from the cache (403 on a miss), then the
\* handler checks the caller's access to the path's user
GetCurrentUser(r) ==
    /\ reqs[r].pc = "current_user"
    /\ \E ok \in BOOLEAN :
         LET req == reqs[r]
             bytes == CacheGet(cache, UserKey(req.tok.sub))
             user == JsonLoads(bytes).data
         IN reqs' = [reqs EXCEPT ![r] =
                 IF ~ok THEN Raise(req, 500, "cur_err")
                 ELSE IF bytes = NoBytes THEN Raise(req, 403, "cur_403")
                 ELSE IF req.kind # "logout" /\ ~HasAccess(user, req.uid)
                      THEN Raise(req, 403, "access_403")
                 ELSE [Step(req, "db_get", "cur") EXCEPT !.cur = user]]
    /\ UNCHANGED <<users, blacklist, cache, issued, nextId, started, last, upd, notFound>>

(***************************************************************************)
(* GET /users/{user_id}: routers/users.py get_user, through                *)
(* utils/routers.py get_or_cache_serialized_entity.                        *)
(***************************************************************************)
StartGetUser(r) ==
    \E t \in issued \cup {BadToken}, u \in UserIds :
        Receive(r, [Idle EXCEPT !.kind = "get_user", !.pc = "auth", !.tok = t, !.uid = u])

\* a variant that computes again although the key is cached
OnCacheReadIgnoresHit(req, ok, bytes) ==
    IF ~ok THEN Raise(req, 500, "get_err") ELSE Step(req, "compute", "miss")

\* a variant that falls back to the store when the cache read fails
OnCacheReadFallsBack(req, ok, bytes) ==
    IF ok /\ bytes # NoBytes
    THEN [Raise(req, StatusOf(AppResponseInit(TRUE, bytes)), "hit") EXCEPT !.payload = bytes]
    ELSE Step(req, "compute", IF ok THEN "miss" ELSE "get_err")

\* a variant with a single-flight guard: a miss waits while another call
\* computes or writes the same key
OnCacheReadSingleFlight(req, ok, bytes) ==
    IF ~ok THEN Raise(req, 500, "get_err")
    ELSE IF bytes # NoBytes
    THEN [Raise(req, StatusOf(AppResponseInit(TRUE, bytes)), "hit") EXCEPT !.payload = bytes]
    ELSE IF \E q \in ReqIds : /\ reqs[q].kind = "get_user"
                              /\ reqs[q].uid = req.uid
                              /\ reqs[q].pc \in {"compute", "cache_set"}
    THEN Step(req, "cache_get", "wait")
    ELSE Step(req, "compute", "miss")

\* what the call does with the outcome of get_cached_data
OnCacheRead(req, ok, bytes) ==
    IF ~ok THEN Raise(req, 500, "get_err")
    ELSE IF bytes # NoBytes
    THEN [Raise(req, StatusOf(AppResponseInit(TRUE, bytes)), "hit") EXCEPT !.payload = bytes]
    ELSE Step(req, "compute", "miss")

\* serialized_entity = await get_cached_data(redis_key, redis_client)
GetCachedEntity(r) ==
    /\ reqs[r].pc = "cache_get"
    /\ \E ok \in BOOLEAN :
         LET key == UserKey(reqs[r].uid)
             req == [reqs[r] EXCEPT !.seen =
                        IF ok
                        THEN [last |-> last[key], upd |-> upd[key], nf |-> reqs[r].uid \in notFound]
                        ELSE NoSeen]
             new == OnCacheRead(req, ok, CacheGet(cache, key))
         IN /\ reqs' = [reqs EXCEPT ![r] = new]
            /\ last' = IF new.payload # NoBytes THEN [last EXCEPT ![key] = new.payload] ELSE last
            /\ notFound' = IF new.payload # NoBytes THEN notFound \ {req.uid} ELSE notFound
    /\ UNCHANGED <<users, blacklist, cache, issued, nextId, started, upd>>

\* a variant that serializes and caches the absence of the user
GetUserServiceCachesAbsence(req) ==
    [Step(req, "cache_set", "compute") EXCEPT
        !.payload = SerializeResponse(BaseResponse(users[req.uid], "none"))]

\* services/users.py get_user: the UserBase of the stored document, or 404
GetUserService(req) ==
    IF users[req.uid] = NoUser
    THEN RaiseDetail(req, 404, "compute_404", "User not found.")
    ELSE [Step(req, "cache_set", "compute") EXCEPT
             !.payload = SerializeResponse(BaseResponse(users[req.uid], "none"))]

\* data = await get_entity_function; serialized_entity = serialize_response(...)
ComputeEntity(r) ==
    /\ reqs[r].pc = "compute"
    /\ reqs' = [reqs EXCEPT ![r] = GetUserService(@)]
    /\ notFound' = IF reqs'[r].status = 404
                   THEN notFound \cup {reqs[r].uid}
                   ELSE notFound \ {reqs[r].uid}
    /\ UNCHANGED <<users, blacklist, cache, issued, nextId, started, last, upd>>

\* a variant that writes again after a failed write
OnCacheWriteRetries(req, ok) ==
    IF ~ok THEN Step(req, "cache_set", "set_err")
    ELSE Raise(req, StatusOf(AppResponseInit(TRUE, req.payload)), "set")

\* what the call does with the outcome of cache_data
OnCacheWrite(req, ok) ==
    IF ~ok THEN [Raise(req, 500, "set_err") EXCEPT !.payload = NoBytes]
    ELSE Raise(req, StatusOf(AppResponseInit(TRUE, req.payload)), "set")

\* the key and bytes the call stores
EntityKey(req) == UserKey(req.uid)

\* await cache_data(redis_key, serialized_entity, expire_in, redis_client)
CacheEntity(r) ==
    /\ reqs[r].pc = "cache_set"
    /\ \E ok \in BOOLEAN :
         LET req == reqs[r]
             key == EntityKey(req)
         IN /\ reqs' = [reqs EXCEPT ![r] = OnCacheWrite(req, ok)]
            /\ cache' = IF ok
                        THEN CacheSet(cache, key, req.payload, SINGLE_USER_CACHE_DURATION)
                        ELSE cache
            /\ last' = IF ok THEN [last EXCEPT ![key] = req.payload] ELSE last
            /\ upd' = IF ok THEN [upd EXCEPT ![key] = NoBytes] ELSE upd
    /\ UNCHANGED <<users, blacklist, issued, nextId, started, notFound>>

(***************************************************************************)
(* GET /users/: routers/users.py get_all_users, through                    *)
(* get_or_cache_serialized_entity with the key `users`.                    *)
(***************************************************************************)
StartGetUsers(r) ==
    \E t \in issued \cup {BadToken} :
        Receive(r, [Idle EXCEPT !.kind = "get_users", !.pc = "auth", !.tok = t])

\* services/users.py get_users: the UserBase of every stored document
GetUsers == SelectSeq([u \in UserIds |-> users[u]], LAMBDA doc : doc # NoUser)

\* the payload of the collection: BaseResponse(data=users, key="users")
SerializeUsers == SerializeResponse(BaseResponse([array |-> GetUsers], "users"))

\* serialized_entity = await get_cached_data("users", redis_client)
GetCachedUsers(r) ==
    /\ reqs[r].pc = "cache_get_all"
    /\ \E ok \in BOOLEAN :
         LET new == OnCacheRead(reqs[r], ok, listing.val)
         IN reqs' = [reqs EXCEPT ![r] =
                        [new EXCEPT !.pc = IF @ = "compute" THEN "compute_all" ELSE @]]
    /\ UNCHANGED <<users, blacklist, cache, issued, nextId, started, last, upd, notFound,
                   listing>>

\* data = await get_entity_function; serialized_entity = serialize_response(...)
ComputeUsers(r) ==
    /\ reqs[r].pc = "compute_all"
    /\ reqs' = [reqs EXCEPT ![r] =
                  [Step(@, "cache_set_all", "compute") EXCEPT !.payload = SerializeUsers]]
    /\ UNCHANGED <<users, blacklist, cache, issued, nextId, started, last, upd, notFound,
                   listing>>

\* await cache_data("users", serialized_entity, USERS_CACHE_DURATION, redis_client)
CacheUsers(r) ==
    /\ reqs[r].pc = "cache_set_all"
    /\ \E ok \in BOOLEAN :
         /\ reqs' = [reqs EXCEPT ![r] = OnCacheWrite(@, ok)]
         /\ listing' = IF ok
                       THEN [val |-> reqs[r].payload, ex |-> USERS_CACHE_DURATION]
                       ELSE listing
    /\ UNCHANGED <<users, blacklist, cache, issued, nextId, started, last, upd, notFound>>

\* the ttl of the collection entry elapses
ExpireUsers ==
    /\ listing # NoEntry
    /\ listing' = NoEntry
    /\ UNCHANGED <<users, blacklist, cache, issued, nextId, reqs, started, last, upd,
                   notFound>>

(***************************************************************************)
(* PUT /users/{user_id}: routers/users.py update_user.                     *)
(***************************************************************************)
StartUpdateUser(r) ==
    \E t \in issued \cup {BadToken}, u \in UserIds, n \in Names, e \in Emails :
        Receive(r, [Idle EXCEPT !.kind = "update_user", !.pc = "auth", !.tok = t,
                                !.uid = u, !.name = n, !.email = e])

\* services/users.py get_user_from_database(user_id): the document, or 404
GetUserFromDatabase(req, id) ==
    IF users[id] = NoUser
    THEN RaiseDetail(req, 404, "db_404", "User not found.")
    ELSE [Step(req, CASE req.kind = "update_user" -> "db_replace"
                      [] req.kind = "logout" -> "logout_txn"
                      [] OTHER -> "cache_del", "db_get")
             EXCEPT !.doc = users[id]]

\* services/users.py update_user: user = await get_user_from_database(user_id)
UpdateDbGet(r) ==
    /\ reqs[r].pc = "db_get"
    /\ reqs[r].kind = "update_user"
    /\ reqs' = [reqs EXCEPT ![r] = GetUserFromDatabase(@, @.uid)]
    /\ UNCHANGED <<users, blacklist, cache, issued, nextId, started, last, upd, notFound>>

\* services/users.py update_user: name and email are set on the loaded
\* document and the document is replaced; a duplicate email is a 400, a
\* document deleted in between an error
UpdateDbReplace(r) ==
    /\ reqs[r].pc = "db_replace"
    /\ LET req == reqs[r]
           doc == [req.doc EXCEPT !.name = req.name, !.email = req.email]
       IN IF users[req.uid] = NoUser
          THEN /\ reqs' = [reqs EXCEPT ![r] = Raise(req, 500, "replace_err")]
               /\ UNCHANGED <<users, last>>
          ELSE IF EmailTaken(req.email, req.uid)
          THEN /\ reqs' = [reqs EXCEPT ![r] = RaiseDetail(req, 400, "replace_dup",
                                                          "Email associated with another account.")]
               /\ UNCHANGED <<users, last>>
          ELSE /\ reqs' = [reqs EXCEPT ![r] = [Step(req, "cache_set_u", "replace")
                                                  EXCEPT !.doc = doc]]
               /\ users' = [users EXCEPT ![req.uid] = doc]
               /\ last' = ClearAll
    /\ UNCHANGED <<blacklist, cache, issued, nextId, started, upd, notFound>>

\* the bytes update_user caches: the serialized BaseResponse of the UserBase
\* of the document it wrote
UpdatedBytes(req) == SerializeResponse(BaseResponse(req.doc, "none"))

\* a variant that invalidates the key and leaves the caching to the next read
UpdateCacheEffectDeletes(c, req) == CacheDel(c, UserKey(req.uid))

\* what update_user does to the cache once the store is written
UpdateCacheEffect(c, req) ==
    CacheSet(c, UserKey(req.uid), UpdatedBytes(req), SINGLE_USER_CACHE_DURATION)

\* routers/users.py update_user: create, serialize and cache the response
UpdateCacheSet(r) ==
    /\ reqs[r].pc = "cache_set_u"
    /\ \E ok \in BOOLEAN :
         LET req == reqs[r]
             key == UserKey(req.uid)
         IN IF ok
            THEN /\ reqs' = [reqs EXCEPT ![r] = Raise(req, 204, "set")]
                 /\ cache' = UpdateCacheEffect(cache, req)
                 /\ last' = [last EXCEPT ![key] = NoBytes]
                 /\ upd' = [upd EXCEPT ![key] =
                              SerializeUser([id |-> req.uid, name |-> req.name,
                                             email |-> req.email, role |-> req.doc.role])]
            ELSE /\ reqs' = [reqs EXCEPT ![r] = Raise(req, 500, "set_err")]
                 /\ UNCHANGED <<cache, last, upd>>
    /\ UNCHANGED <<users, blacklist, issued, nextId, started, notFound>>

(***************************************************************************)
(* DELETE /users/{user_id}: routers/users.py delete_user.                  *)
(***************************************************************************)
StartDeleteUser(r) ==
    \E t \in issued \cup {BadToken}, u \in UserIds :
        Receive(r, [Idle EXCEPT !.kind = "delete_user", !.pc = "auth", !.tok = t, !.uid = u])

\* user = await service.get_user_from_database(user_base.id): the document of
\* the caller
DeleteDbGet(r) ==
    /\ reqs[r].pc = "db_get"
    /\ reqs[r].kind = "delete_user"
    /\ reqs' = [reqs EXCEPT ![r] = GetUserFromDatabase(@, @.cur.id)]
    /\ UNCHANGED <<users, blacklist, cache, issued, nextId, started, last, upd, notFound>>

\* a variant that swallows the exception and goes on with the transaction
OnCacheDeleteSwallows(req, ok) ==
    Step(req, "db_txn", IF ok THEN "del" ELSE "del_err")

\* the try/except around delete_cached_data inside the transaction block:
\* on an exception the transaction is aborted and the exception re-raised
OnCacheDelete(req, ok) ==
    IF ok THEN Step(req, "db_txn", "del") ELSE Raise(req, 500, "del_err")

DeleteCacheDel(r) ==
    /\ reqs[r].pc = "cache_del"
    /\ \E ok \in BOOLEAN :
         LET req == reqs[r]
             key == UserKey(req.uid)
         IN /\ reqs' = [reqs EXCEPT ![r] = OnCacheDelete(req, ok)]
            /\ cache' = IF ok THEN CacheDel(cache, key) ELSE cache
            /\ last' = IF ok THEN [last EXCEPT ![key] = NoBytes] ELSE last
            /\ upd' = IF ok THEN [upd EXCEPT ![key] = NoBytes] ELSE upd
    /\ UNCHANGED <<users, blacklist, issued, nextId, started, notFound>>

\* blacklist_access_token and service.delete_user(user, db_session) run in
\* the transaction; their writes show when the block commits
DeleteTxn(r) ==
    /\ reqs[r].pc = "db_txn"
    /\ LET req == reqs[r]
       IN /\ reqs' = [reqs EXCEPT ![r] =
                        Raise([req EXCEPT !.trace = Append(@, "blacklist")], 204, "db_delete")]
          /\ blacklist' = blacklist \cup {req.tok}
          /\ users' = [users EXCEPT ![req.doc.id] = NoUser]
          /\ last' = ClearAll
    /\ UNCHANGED <<cache, issued, nextId, started, upd, notFound>>

(***************************************************************************)
(* POST /users/: routers/users.py create_user.                             *)
(***************************************************************************)
\* the requests that will insert a user
Inserting == {q \in ReqIds : reqs[q].pc = "db_insert"}

\* the model holds MaxUsers users: a create is taken up while an id is left
\* for it or its email is taken
StartCreateUser(r) ==
    \E n \in Names, e \in Emails :
        /\ nextId + Cardinality(Inserting) <= MaxUsers \/ EmailTaken(e, 0)
        /\ Receive(r, [Idle EXCEPT !.kind = "create_user", !.pc = "db_insert",
                                !.name = n, !.email = e])

\* a variant that lets the DuplicateKeyError through as any other exception
OnDuplicateKeyReraised(req) == Raise(req, 500, "insert_err")

\* except DuplicateKeyError: raise HTTPException(HTTP_400_BAD_REQUEST, ...)
OnDuplicateKey(req) ==
    RaiseDetail(req, 400, "insert_dup", "Email associated with another account.")

\* services/users.py create_user: insert, a duplicate email is a 400
CreateInsert(r) ==
    /\ reqs[r].pc = "db_insert"
    /\ nextId <= MaxUsers \/ EmailTaken(reqs[r].email, 0)
    /\ LET req == reqs[r]
           doc == [id |-> nextId, name |-> req.name, email |-> req.email, role |-> "user"]
       IN IF EmailTaken(req.email, 0)
          THEN /\ reqs' = [reqs EXCEPT ![r] = OnDuplicateKey(req)]
               /\ UNCHANGED <<users, nextId, last>>
          ELSE /\ reqs' = [reqs EXCEPT ![r] =
                              [Step(req, "cache_set_c", "insert") EXCEPT !.doc = doc, !.uid = nextId]]
               /\ users' = [users EXCEPT ![nextId] = doc]
               /\ nextId' = nextId + 1
               /\ last' = ClearAll
    /\ UNCHANGED <<blacklist, cache, issued, started, upd, notFound>>

\* routers/users.py create_user: the new user is serialized and cached
CreateCacheSet(r) ==
    /\ reqs[r].pc = "cache_set_c"
    /\ \E ok \in BOOLEAN :
         LET req == reqs[r]
             key == UserKey(req.uid)
         IN IF ok
            THEN /\ reqs' = [reqs EXCEPT ![r] = Raise(req, 201, "set")]
                 /\ cache' = CacheSet(cache, key, SerializeResponse(BaseResponse(req.doc, "none")),
                                      SINGLE_USER_CACHE_DURATION)
                 /\ last' = [last EXCEPT ![key] = NoBytes]
                 /\ upd' = [upd EXCEPT ![key] = NoBytes]
            ELSE /\ reqs' = [reqs EXCEPT ![r] = Raise(req, 500, "set_err")]
                 /\ UNCHANGED <<cache, last, upd>>
    /\ UNCHANGED <<users, blacklist, issued, nextId, started, notFound>>

(***************************************************************************)
(* POST /auth/login: routers/auth.py login.                                *)
(***************************************************************************)
StartLogin(r) ==
    \E e \in Emails, pw \in BOOLEAN :
        Receive(r, [Idle EXCEPT !.kind = "login", !.pc = "creds", !.email = e, !.pw = pw])

\* services/auth.py check_users_credentials: 401 unless a user has the email
\* and the password matches; the access token is created next
LoginCheck(r) ==
    /\ reqs[r].pc = "creds"
    /\ LET req == reqs[r]
           found == {u \in UserIds : users[u] # NoUser /\ users[u].email = req.email}
       IN reqs' = [reqs EXCEPT ![r] =
             IF found = {} \/ ~req.pw
             THEN Raise(req, 401, "creds_401")
             ELSE LET u == CHOOSE u \in found : TRUE
                  IN [Step(req, "cache_set_l", "creds") EXCEPT
                         !.doc = users[u], !.uid = u, !.tok = [sub |-> u, n |-> req.seq]]]
    /\ UNCHANGED <<users, blacklist, cache, issued, nextId, started, last, upd, notFound>>

\* the user is cached (twice, with the same bytes: before and inside the
\* transaction block), the session saved and the tokens returned
LoginCacheSet(r) ==
    /\ reqs[r].pc = "cache_set_l"
    /\ \E ok \in BOOLEAN :
         LET req == reqs[r]
             key == UserKey(req.uid)
         IN IF ok
            THEN /\ reqs' = [reqs EXCEPT ![r] = Raise(req, 200, "set")]
                 /\ cache' = CacheSet(cache, key, SerializeResponse(BaseResponse(req.doc, "none")),
                                      SINGLE_USER_CACHE_DURATION)
                 /\ issued' = issued \cup {req.tok}
                 /\ last' = [last EXCEPT ![key] = NoBytes]
                 /\ upd' = [upd EXCEPT ![key] = NoBytes]
            ELSE /\ reqs' = [reqs EXCEPT ![r] = Raise(req, 500, "set_err")]
                 /\ UNCHANGED <<cache, issued, last, upd>>
    /\ UNCHANGED <<users, blacklist, nextId, started, notFound>>

(***************************************************************************)
(* GET /auth/logout: routers/auth.py logout.                               *)
(***************************************************************************)
StartLogout(r) ==
    \E t \in issued \cup {BadToken} :
        Receive(r, [Idle EXCEPT !.kind = "logout", !.pc = "auth", !.tok = t])

\* user = await users_service.get_user_from_database(user_base.id)
LogoutDbGet(r) ==
    /\ reqs[r].pc = "db_get"
    /\ reqs[r].kind = "logout"
    /\ reqs' = [reqs EXCEPT ![r] = GetUserFromDatabase(@, @.cur.id)]
    /\ UNCHANGED <<users, blacklist, cache, issued, nextId, started, last, upd, notFound>>

\* the transaction block: the refresh token of the session is invalidated
\* and the access token inserted into the blacklist
LogoutTxn(r) ==
    /\ reqs[r].pc = "logout_txn"
    /\ reqs' = [reqs EXCEPT ![r] = Raise(@, 204, "blacklist")]
    /\ blacklist' = blacklist \cup {reqs[r].tok}
    /\ UNCHANGED <<users, cache, issued, nextId, started, last, upd, notFound>>

(***************************************************************************)
(* Time: a cache entry's ttl elapses and redis drops the key.              *)
(***************************************************************************)
Expire(k) ==
    /\ cache[k] # NoEntry
    /\ cache' = CacheDel(cache, k)
    /\ last' = [last EXCEPT ![k] = NoBytes]
    /\ upd' = [upd EXCEPT ![k] = NoBytes]
    /\ UNCHANGED <<users, blacklist, issued, nextId, reqs, started, notFound>>

(***************************************************************************)
(* The users / auth specification.                                         *)
(***************************************************************************)
\* the store holds the seeded admin (tests/routers/conftest.py test_user), who
\* has not logged in yet or holds the token of an earlier login
SeedAdmin == [id |-> 1, name |-> "n0", email |-> "e1", role |-> "admin"]
SeedToken == [sub |-> 1, n |-> 0]


(***************************************************************************)
(* Claims about the users endpoints and the cache-aside layer.             *)
(***************************************************************************)
Range(seq) == {seq[i] : i \in 1..Len(seq)}
Last(seq) == seq[Len(seq)]
Reads == {r \in ReqIds : reqs[r].kind = "get_user"}

\* C1: when a get-or-cache call on a key directly follows a completed call on
\* the same key (the store unchanged, the entry not expired and no other
\* operation on the key in between), the cache read is a hit: the call ends
\* there, returns the bytes the first call returned and never runs the
\* compute function.
C1_CacheAsideIdempotence ==
    \A r \in Reads :
        reqs[r].seen.last # NoBytes =>
            /\ reqs[r].pc = "done"
            /\ reqs[r].payload = reqs[r].seen.last
            /\ reqs[r].trace = <<"auth", "hit">>

C1_Witness ==
    \E r \in Reads : reqs[r].seen.last # NoBytes /\ reqs[r].payload = reqs[r].seen.last

C3_CacheDeleteFirst ==
    [][\A r \in ReqIds :
          (reqs[r].kind = "delete_user" /\ reqs'[r] # reqs[r]) =>
              /\ (users' # users \/ blacklist' # blacklist) =>
                    Last(reqs[r].trace) = "del"
              /\ reqs[r].pc = "cache_del" =>
                    \/ /\ Last(reqs'[r].trace) = "del"
                       /\ cache'[UserKey(reqs[r].uid)] = NoEntry
                       /\ reqs'[r].pc = "db_txn"
                    \/ /\ Last(reqs'[r].trace) = "del_err"
                       /\ reqs'[r].pc = "done"
                       /\ reqs'[r].status = 500
                       /\ UNCHANGED <<users, blacklist, cache>>]_vars

C3_Witness ==
    \E r \in ReqIds :
        /\ reqs[r].kind = "delete_user"
        /\ reqs[r].pc = "done"
        /\ Last(reqs[r].trace) = "del_err"

C9_CacheErrorsPropagate ==
    [][\A r \in ReqIds :
          (reqs[r].kind = "get_user" /\ reqs[r].pc \in {"cache_get", "cache_set"}
              /\ reqs'[r] # reqs[r]) =>
              LET t == reqs'[r].trace IN
              /\ Last(t) = "get_err" =>
                    /\ t = <<"auth", "get_err">>
                    /\ reqs'[r].pc = "done" /\ reqs'[r].status = 500
                    /\ reqs'[r].payload = NoBytes
                    /\ cache' = cache
              /\ Last(t) = "set_err" =>
                    /\ t = <<"auth", "miss", "compute", "set_err">>
                    /\ reqs'[r].pc = "done" /\ reqs'[r].status = 500
                    /\ reqs'[r].payload = NoBytes
                    /\ cache' = cache]_vars

C9_Witness ==
    \E r1, r2 \in Reads :
        /\ reqs[r1].pc = "done" /\ Last(reqs[r1].trace) = "get_err"
        /\ reqs[r2].pc = "done" /\ Last(reqs[r2].trace) = "set_err"

(***************************************************************************)
(* Strings: a string is the sequence of its characters.                    *)
(***************************************************************************)
UpperCase == <<"A", "B", "C", "D", "E", "F", "G", "H", "I", "J", "K", "L", "M",
               "N", "O", "P", "Q", "R", "S", "T", "U", "V", "W", "X", "Y", "Z">>
LowerCase == <<"a", "b", "c", "d", "e", "f", "g", "h", "i", "j", "k", "l", "m",
               "n", "o", "p", "q", "r", "s", "t", "u", "v", "w", "x", "y", "z">>
Digits == <<"0", "1", "2", "3", "4", "5", "6", "7", "8", "9">>

\* the characters of the model in code point order
Ascii == <<"!", "-", ".">> \o Digits \o <<":", "<", "=", ">">> \o UpperCase
             \o <<"_">> \o LowerCase \o <<"~">>

IndexIn(seq, c) == CHOOSE i \in 1..Len(seq) : seq[i] = c
IsIn(seq, c) == \E i \in 1..Len(seq) : seq[i] = c

\* str.isalpha on one character
IsAlpha(c) == IsIn(UpperCase, c) \/ IsIn(LowerCase, c)

\* str.lower
LowerChar(c) == IF IsIn(UpperCase, c) THEN LowerCase[IndexIn(UpperCase, c)] ELSE c
Lower(str) == [i \in 1..Len(str) |-> LowerChar(str[i])]

\* str.split(":")
RECURSIVE Split(_)
Split(str) ==
    IF ~IsIn(str, ":") THEN <<str>>
    ELSE LET i == CHOOSE i \in 1..Len(str) :
                      str[i] = ":" /\ \A j \in 1..(i - 1) : str[j] # ":"
         IN <<SubSeq(str, 1, i - 1)>> \o Split(SubSeq(str, i + 1, Len(str)))

\* s < t in the binary comparison of the store
RECURSIVE StrLess(_, _)
StrLess(s, t) ==
    IF t = <<>> THEN FALSE
    ELSE IF s = <<>> THEN TRUE
    ELSE IF s[1] # t[1] THEN IndexIn(Ascii, s[1]) < IndexIn(Ascii, t[1])
    ELSE StrLess(Tail(s), Tail(t))

\* t occurs in s, letter case ignored: a $regex of plain characters with
\* the option "i"
Contains(s, t) ==
    \E i \in 0..(Len(s) - Len(t)) : Lower(SubSeq(s, i + 1, i + Len(t))) = Lower(t)

\* the words of the program
S_category == <<"c", "a", "t", "e", "g", "o", "r", "y">>
S_chaos_price == <<"p", "r", "i", "c", "e", "_", "i", "n", "f", "o", ".", "c", "h", "a", "o", "s", "_", "p", "r", "i", "c", "e">>
S_name == <<"n", "a", "m", "e">>
S_like == <<"l", "i", "k", "e">>
S_asc == <<"a", "s", "c">>
S_desc == <<"d", "e", "s", "c">>

(***************************************************************************)
(* schemas/requests.py: the filter and sort query parameters.              *)
(***************************************************************************)
\* config/constants/app.py FILTER_OPERATION
FILTER_OPERATION == {<<"=">>, <<"!", "=">>, <<">">>, <<">", "=">>, <<"<">>, <<"<", "=">>, S_like}

\* a query parameter that was not sent is None
NoParams == [none |-> TRUE, tokens |-> <<>>]
Params(tokens) == [none |-> FALSE, tokens |-> tokens]

Parsed(clauses) == [raised |-> FALSE, none |-> FALSE, clauses |-> clauses]
ParsedNone == [raised |-> FALSE, none |-> TRUE, clauses |-> <<>>]
ParseError == [raised |-> TRUE, none |-> FALSE, clauses |-> <<>>]

\* FilterSchema(field=..., operation=..., value=...): field and operation
\* are lower-cased, the value must have 1 to 200 characters
FilterSchemaValid(field, operation, value) ==
    /\ Lower(operation) \in FILTER_OPERATION
    /\ Len(value) >= 1
    /\ Len(value) <= MAX_VALUE_LENGTH
\* a variant that lower-cases the value as well
FilterSchemaLowersValue(field, operation, value) ==
    [field |-> Lower(field), operation |-> Lower(operation), value |-> Lower(value)]
FilterSchema(field, operation, value) ==
    [field |-> Lower(field), operation |-> Lower(operation), value |-> value]

\* the loop of parse_filter_input from the i-th token on: a token that does
\* not unpack into three parts, or whose FilterSchema does not validate,
\* raises; a token with an operation outside FILTER_OPERATION leaves the
\* loop through `break`, past the raise, and the clauses gathered so far are
\* returned
RECURSIVE FilterLoop(_, _, _)
FilterLoop(tokens, i, filter_params) ==
    IF i > Len(tokens) THEN Parsed(filter_params)
    ELSE LET parts == Split(tokens[i])
         IN IF Len(parts) # 3 THEN ParseError
            ELSE IF parts[2] \notin FILTER_OPERATION THEN Parsed(filter_params)
            ELSE IF ~FilterSchemaValid(parts[1], parts[2], parts[3]) THEN ParseError
            ELSE FilterLoop(tokens, i + 1,
                            Append(filter_params, FilterSchema(parts[1], parts[2], parts[3])))

\* FilterSchema.parse_filter_input
parse_filter_input(query_params) ==
    IF query_params.none THEN ParsedNone ELSE FilterLoop(query_params.tokens, 1, <<>>)

\* a variant that keeps the letter case of the field
SortSchemaKeepsCase(field, operation) == [field |-> field, operation |-> operation]

\* SortSchema(field=..., operation=...): the field is lower-cased
SortSchema(field, operation) == [field |-> Lower(field), operation |-> operation]

\* the loop of parse_sort_input from the i-th token on: an empty token
\* raises; a token whose first character is neither "-" nor a letter leaves
\* the loop through `break`, past the raise
RECURSIVE SortLoop(_, _, _)
SortLoop(tokens, i, sort_params) ==
    IF i > Len(tokens) THEN Parsed(sort_params)
    ELSE LET query_param == tokens[i]
         IN IF query_param = <<>> THEN ParseError
            ELSE IF query_param[1] = "-"
            THEN SortLoop(tokens, i + 1,
                          Append(sort_params, SortSchema(Tail(query_param), S_desc)))
            ELSE IF IsAlpha(query_param[1])
            THEN SortLoop(tokens, i + 1,
                          Append(sort_params, SortSchema(query_param, S_asc)))
            ELSE Parsed(sort_params)

\* SortSchema.parse_sort_input
parse_sort_input(query_params) ==
    IF query_params.none THEN ParsedNone ELSE SortLoop(query_params.tokens, 1, <<>>)

\* FilterSortInput(sort=sort, filter=filter_): both validators run, a
\* ValueError of either is a ValidationError of the model
FilterSortInput(filter_, sort) ==
    LET f == parse_filter_input(filter_)
        s == parse_sort_input(sort)
    IN [raised |-> f.raised \/ s.raised, filter_ |-> f, sort |-> s]

(***************************************************************************)
(* The items collection.                                                   *)
(***************************************************************************)
\* the stored documents: two categories, chaos prices with ties, and one
\* price history longer than a week
ItemDoc(i) ==
    [poe_ninja_id |-> i,
     name |-> IF i % 2 = 1 THEN <<"a">> ELSE <<"b">>,
     category |-> IF i <= 2 THEN <<"a", "b">> ELSE <<"b", "c">>,
     price_info |-> [chaos_price |-> IF i = 2 THEN 1 ELSE 2,
                     price_history |-> [j \in 1..(IF i = 1 THEN 8 ELSE 2) |-> j]]]
ItemIds == 1..MaxItems

\* the attributes of the Item document that getattr(model, field) finds
ItemFields == {S_name, S_category}

\* Decimal128(value) of a string of digits; any other string of the model
\* is not a number and the conversion raises
IsDecimal(value) == value # <<>> /\ \A i \in 1..Len(value) : IsIn(Digits, value[i])
RECURSIVE Decimal128(_)
Decimal128(value) ==
    IF value = <<>> THEN 0
    ELSE 10 * Decimal128(SubSeq(value, 1, Len(value) - 1))
           + (IndexIn(Digits, value[Len(value)]) - 1)

(***************************************************************************)
(* utils/services.py: sort_on_query, filter_on_query, QueryChainer.        *)
(***************************************************************************)
\* config/constants/app.py NESTED_FILTER_OPERATION_MAP
\* a variant of the nested table without the entry for "="
NestedMapWithoutEquality ==
    [op \in {<<">">>, <<">", "=">>, <<"<">>, <<"<", "=">>} |->
        CASE op = <<">">> -> "$gt"
          [] op = <<">", "=">> -> "$gte"
          [] op = <<"<">> -> "$lt"
          [] op = <<"<", "=">> -> "$lte"]

NESTED_FILTER_OPERATION_MAP ==
    [op \in {<<"=">>, <<">">>, <<">", "=">>, <<"<">>, <<"<", "=">>} |->
        CASE op = <<"=">> -> "$eq"
          [] op = <<">">> -> "$gt"
          [] op = <<">", "=">> -> "$gte"
          [] op = <<"<">> -> "$lt"
          [] op = <<"<", "=">> -> "$lte"]

\* config/constants/app.py FILTER_OPERATION_MAP, in the store's operators
FILTER_OPERATION_MAP ==
    [op \in FILTER_OPERATION |->
        CASE op = <<"=">> -> "$eq"
          [] op = <<"!", "=">> -> "$ne"
          [] op = <<">">> -> "$gt"
          [] op = <<"<">> -> "$lt"
          [] op = <<">", "=">> -> "$gte"
          [] op = <<"<", "=">> -> "$lte"
          [] op = S_like -> "$regex"]

IsNested(field) == IsIn(field, ".")

\* Item.find(): a query without expressions, sort, skip or limit
EmptyQuery == [raised |-> FALSE, find |-> <<>>, sort |-> <<>>, skip |-> 0, limit |-> 0]
QueryError == [raised |-> TRUE, find |-> <<>>, sort |-> <<>>, skip |-> 0, limit |-> 0]

\* _build_nested_query: the raw expression of a nested field; an operation
\* missing from NESTED_FILTER_OPERATION_MAP or a value that is no decimal
\* raises
NestedRaises(entry) ==
    entry.operation # S_like
        /\ (entry.operation \notin DOMAIN NESTED_FILTER_OPERATION_MAP \/ ~IsDecimal(entry.value))
NestedExpression(entry) ==
    IF entry.operation # S_like
    THEN [field |-> entry.field, op |-> NESTED_FILTER_OPERATION_MAP[entry.operation],
          num |-> Decimal128(entry.value), str |-> <<>>]
    ELSE [field |-> entry.field, op |-> "$regex", num |-> 0, str |-> entry.value]

\* the expression of a field of the model
FieldExpression(entry) ==
    [field |-> entry.field, op |-> FILTER_OPERATION_MAP[entry.operation],
     num |-> 0, str |-> entry.value]

\* filter_on_query: one find() per clause, each on the query object itself;
\* a field that is no attribute of the model raises
RECURSIVE filter_on_query(_, _)
filter_on_query(query, filter_) ==
    IF filter_.none \/ filter_.clauses = <<>> \/ query.raised THEN query
    ELSE LET entry == Head(filter_.clauses)
             rest == [filter_ EXCEPT !.clauses = Tail(@)]
         IN IF IsNested(entry.field)
            THEN IF NestedRaises(entry) THEN QueryError
                 ELSE filter_on_query([query EXCEPT !.find = Append(@, NestedExpression(entry))],
                                      rest)
            ELSE IF entry.field \notin ItemFields THEN QueryError
            ELSE filter_on_query([query EXCEPT !.find = Append(@, FieldExpression(entry))], rest)

\* sort_on_query: the (field, direction) pairs are handed to query.sort
RECURSIVE SortExpressions(_)
SortExpressions(clauses) ==
    IF clauses = <<>> THEN <<>>
    ELSE <<[field |-> Head(clauses).field,
            desc |-> Head(clauses).operation # S_asc]>> \o SortExpressions(Tail(clauses))
sort_on_query(query, sort) ==
    IF sort.none \/ query.raised THEN query
    ELSE IF \E i \in 1..Len(sort.clauses) :
               ~IsNested(sort.clauses[i].field) /\ sort.clauses[i].field \notin ItemFields
    THEN QueryError
    ELSE [query EXCEPT !.sort = @ \o SortExpressions(sort.clauses)]

\* PaginationInput.offset
Offset(pagination) == (pagination.page - 1) * pagination.per_page

\* a variant in which find() builds a new query and leaves the query of the
\* chainer as it was
ChainFilterDropped(query, filter_) ==
    IF filter_on_query(query, filter_).raised THEN QueryError ELSE query

\* QueryChainer.filter: the result of filter_on_query is dropped, the
\* expressions stay because find() changed the query in place
ChainFilter(query, filter_) == filter_on_query(query, filter_)

\* QueryChainer.sort
ChainSort(query, sort) == sort_on_query(query, sort)
\* QueryChainer.paginate: find(skip=offset, limit=per_page) on the query
ChainPaginate(query, pagination) ==
    IF query.raised THEN query
    ELSE [query EXCEPT !.skip = Offset(pagination), !.limit = pagination.per_page]

(***************************************************************************)
(* The store's answer to a query.                                          *)
(***************************************************************************)
\* the value a document has at a field of the model
StrField(doc, field) == IF field = S_name THEN doc.name ELSE doc.category

StrCompare(op, a, b) ==
    CASE op = "$eq" -> a = b
      [] op = "$ne" -> a # b
      [] op = "$gt" -> StrLess(b, a)
      [] op = "$gte" -> ~StrLess(a, b)
      [] op = "$lt" -> StrLess(a, b)
      [] op = "$lte" -> ~StrLess(b, a)
      [] op = "$regex" -> Contains(a, b)

NumCompare(op, a, b) ==
    CASE op = "$eq" -> a = b
      [] op = "$ne" -> a # b
      [] op = "$gt" -> a > b
      [] op = "$gte" -> a >= b
      [] op = "$lt" -> a < b
      [] op = "$lte" -> a <= b
      [] op = "$regex" -> FALSE

\* a document satisfies a find expression; a path no document has matches
\* nothing, and a regex matches no number
Satisfies(doc, e) ==
    IF e.field \in ItemFields THEN StrCompare(e.op, StrField(doc, e.field), e.str)
    ELSE IF e.field = S_chaos_price THEN NumCompare(e.op, doc.price_info.chaos_price, e.num)
    ELSE FALSE

FilterQuery(query) ==
    {i \in ItemIds : \A k \in 1..Len(query.find) : Satisfies(ItemDoc(i), query.find[k])}

\* doc a sorts strictly before doc b on one sort expression
KeyLess(a, b, field) ==
    IF field \in ItemFields THEN StrLess(StrField(a, field), StrField(b, field))
    ELSE IF field = S_chaos_price THEN a.price_info.chaos_price < b.price_info.chaos_price
    ELSE FALSE
Precedes(a, b, e) == IF e.desc THEN KeyLess(b, a, e.field) ELSE KeyLess(a, b, e.field)

\* a sorts strictly before b on the sort expressions, the earlier ones first
RECURSIVE SortsBefore(_, _, _)
SortsBefore(a, b, sort) ==
    IF sort = <<>> THEN FALSE
    ELSE \/ Precedes(a, b, Head(sort))
         \/ ~Precedes(b, a, Head(sort)) /\ SortsBefore(a, b, Tail(sort))

\* the orders in which the store may return the documents `ids`: every
\* order that agrees with the sort; documents the sort does not separate
\* come in any order
Orderings(ids, sort) ==
    {o \in [1..Cardinality(ids) -> ids] :
        /\ \A i, j \in DOMAIN o : i # j => o[i] # o[j]
        /\ \A i, j \in DOMAIN o : i < j => ~SortsBefore(ItemDoc(o[j]), ItemDoc(o[i]), sort)}

Min(a, b) == IF a < b THEN a ELSE b

\* skip and limit on a cursor; a limit of 0 is no limit
SkipLimit(o, skip, limit) ==
    SubSeq(o, skip + 1, IF limit = 0 THEN Len(o) ELSE Min(Len(o), skip + limit))

\* query.project(ItemBase).to_list() for one order of the store
ItemBase(doc) == [poe_ninja_id |-> doc.poe_ninja_id, name |-> doc.name,
                  price_info |-> doc.price_info]
ToList(query, o) ==
    LET page == SkipLimit(o, query.skip, query.limit)
    IN [k \in 1..Len(page) |-> ItemBase(ItemDoc(page[k]))]

\* query.count(): the documents that satisfy the find expressions
Count(query) == Cardinality(FilterQuery(query))

(***************************************************************************)
(* services/poe.py and utils/routers.py: the items response.               *)
(***************************************************************************)
\* get_items: the query of the page
ItemsQuery(fsi, pagination) ==
    ChainPaginate(ChainSort(ChainFilter(EmptyQuery, fsi.filter_), fsi.sort), pagination)

\* get_items: the query of the count
CountQuery(fsi) == ChainFilter(EmptyQuery, fsi.filter_)

\* price_history[-7:]
LastSeven(seq) == IF Len(seq) <= 7 THEN seq ELSE SubSeq(seq, Len(seq) - 6, Len(seq))
LimitHistory(items) ==
    [k \in 1..Len(items) |->
        [items[k] EXCEPT !.price_info.price_history = LastSeven(@)]]

\* a variant that rounds the quotient down
CeilRoundsDown(a, b) == a \div b

\* math.ceil(total_items / per_page)
Ceil(a, b) == (a + b - 1) \div b

\* utils/routers.py create_pagination_response with data_key = "items"
create_pagination_response(data, total_items, pagination) ==
    BaseResponse([items |-> data,
                  pagination |-> [page |-> pagination.page, per_page |-> pagination.per_page,
                                  total_items |-> total_items,
                                  total_pages |-> Ceil(total_items, pagination.per_page)]],
                 "none")

\* check_default_request_input: FilterSortInput is a model and never falsy
check_default_request_input(pagination, fsi) ==
    IF pagination.per_page = MAXIMUM_ITEMS_PER_PAGE THEN FALSE
    ELSE IF fsi.filter_.none \/ fsi.filter_.clauses = <<>>
            \/ fsi.sort.none \/ fsi.sort.clauses = <<>> THEN FALSE
    ELSE LET filter_ == fsi.filter_.clauses
             sort == fsi.sort.clauses
         IN /\ Len(filter_) = 1
            /\ \A i \in 1..Len(filter_) : filter_[i].field = S_category
            /\ Len(sort) = 1
            /\ \A i \in 1..Len(sort) :
                  ~(sort[i].field # S_chaos_price /\ sort[i].operation # S_desc)

\* redis_key = f"{ITEMS_CACHE_KEY}:f_{filter_key}:p_{page}"
ItemsKey(fsi, pagination) == <<"items", fsi.filter_.clauses[1].value, pagination.page>>

\* a JSON array that is the whole payload of an envelope; as a record it can
\* be told from a JSON object
JsonArray(seq) == [array |-> seq]

\* get_item_categories and group_item_categories: the categories by group
CategoryGroups ==
    JsonArray(<<[group |-> "g1", members |-> <<"c1", "c2">>],
                [group |-> "g2", members |-> <<"c3">>]>>)

(***************************************************************************)
(* GET /poe/items and GET /poe/categories: routers/poe.py.                 *)
(***************************************************************************)
EmptyCache == [k \in {} |-> NoEntry]
ItemsCacheGet(c, key) == IF key \in DOMAIN c THEN c[key].val ELSE NoBytes
ItemsCacheSet(c, key, bytes) ==
    [k \in DOMAIN c \cup {key} |->
        IF k = key THEN [val |-> bytes, ex |-> "ITEMS_CACHE_DURATION"] ELSE c[k]]

NoPagination == [page |-> 0, per_page |-> 0]
NoInput == FilterSortInput(NoParams, NoParams)
NoResponse == create_pagination_response(<<>>, 0, [page |-> 0, per_page |-> 1])
NoOut == [raised |-> FALSE, body |-> NoBytes]

IdleItems ==
    [kind |-> "idle", pc |-> "idle", filter |-> NoParams, sort |-> NoParams,
     pagination |-> NoPagination, fsi |-> NoInput, default |-> FALSE,
     key |-> <<>>, items |-> <<>>, response |-> NoResponse, bytes |-> NoBytes,
     handed |-> "none", out |-> NoOut, status |-> 0, io |-> <<>>, n |-> 0]

\* the query parameter values a client sends
FilterTokens ==
    {S_category \o <<":", "=", ":", "a", "b">>,
     S_category \o <<":">> \o S_like \o <<":", "B">>,
     S_chaos_price \o <<":", ">", ":", "1">>,
     S_chaos_price \o <<":", "!", "=", ":", "1">>,
     S_category \o <<":", "~", ":", "a", "b">>,
     S_category \o <<":", "=">>,
     S_category \o <<":", "=", ":">> \o [i \in 1..(MAX_VALUE_LENGTH + 1) |-> "x"]}
SortTokens ==
    {<<"-">> \o S_chaos_price, S_category, <<"-">> \o S_category, <<"1">> \o S_name, <<>>}

Lists(tokens) == UNION {[1..n -> tokens] : n \in 0..MaxTokens}
ParamChoices(tokens) == {NoParams} \cup {Params(l) : l \in Lists(tokens)}
PerPages == {1, 2, MAXIMUM_ITEMS_PER_PAGE}

\* the request ends: AppResponse(response) is built and rendered
Respond(req, isBytes, content) ==
    LET out == AppResponseInit(isBytes, content)
    IN [req EXCEPT !.pc = "done", !.out = out, !.status = StatusOf(out),
                   !.handed = IF isBytes THEN "bytes" ELSE "envelope"]
Fail(req, code) == [req EXCEPT !.pc = "done", !.status = code]

\* the response is sent and the request is over
CloseRequest ==
    /\ ireq.pc = "done"
    /\ ireq' = [IdleItems EXCEPT !.n = ireq.n]
    /\ UNCHANGED icache

\* the page and per_page values a client sends: in and out of range
Pages == 0..MaxPage
RequestedPerPages == PerPages \cup {0, MAXIMUM_ITEMS_PER_PAGE + 1}

\* a variant without the upper limit of per_page
PaginationInputNoMaximum(page, per_page) == page > 0 /\ per_page > 0

\* PaginationInput: page: gt=0, per_page: gt=0, le=MAXIMUM_ITEMS_PER_PAGE
PaginationInputValid(page, per_page) ==
    page > 0 /\ per_page > 0 /\ per_page <= MAXIMUM_ITEMS_PER_PAGE

\* the request arrives and its PaginationInput dependency is built: values
\* out of range are a validation error and the handler is not called
ReceiveItems ==
    /\ ireq.pc = "idle"
    /\ ireq.n < MaxItemReqs
    /\ \E page \in Pages, per_page \in RequestedPerPages :
         LET req == [IdleItems EXCEPT !.kind = "items", !.n = ireq.n + 1,
                                      !.pagination = [page |-> page, per_page |-> per_page]]
         IN IF ~PaginationInputValid(page, per_page)
            THEN ireq' = Fail(req, 422)
            ELSE \E f \in ParamChoices(FilterTokens), s \in ParamChoices(SortTokens) :
                    ireq' = [req EXCEPT !.pc = "handler", !.filter = f, !.sort = s]
    /\ UNCHANGED icache

\* get_items up to its first await: the input is parsed and checked for the
\* default shape
HandleItems ==
    /\ ireq.pc = "handler"
    /\ LET fsi == FilterSortInput(ireq.filter, ireq.sort)
       IN ireq' =
            IF fsi.raised THEN Fail([ireq EXCEPT !.fsi = fsi], 422)
            ELSE IF check_default_request_input(ireq.pagination, fsi)
            THEN [ireq EXCEPT !.fsi = fsi, !.default = TRUE, !.pc = "cache_get",
                              !.key = ItemsKey(fsi, ireq.pagination)]
            ELSE [ireq EXCEPT !.fsi = fsi, !.pc = "items_query"]
    /\ UNCHANGED icache

\* get_or_cache_serialized_entity: await get_cached_data
ItemsCacheRead ==
    /\ ireq.pc = "cache_get"
    /\ \E ok \in BOOLEAN :
         LET req == [ireq EXCEPT !.io = Append(@, "cache_get")]
             bytes == ItemsCacheGet(icache, ireq.key)
         IN ireq' = IF ~ok THEN Fail(req, 500)
                    ELSE IF bytes # NoBytes
                    THEN Respond([req EXCEPT !.bytes = bytes], TRUE, bytes)
                    ELSE [req EXCEPT !.pc = "items_query"]
    /\ UNCHANGED icache

\* services/poe.py get_items: both queries are built, the page is awaited
RunItemsQuery ==
    /\ ireq.pc = "items_query"
    /\ LET items_query == ItemsQuery(ireq.fsi, ireq.pagination)
           count_query == CountQuery(ireq.fsi)
       IN IF items_query.raised \/ count_query.raised
          THEN ireq' = Fail(ireq, 500)
          ELSE \E o \in Orderings(FilterQuery(items_query), items_query.sort) :
                  ireq' = [ireq EXCEPT !.pc = "count_query",
                                       !.items = ToList(items_query, o),
                                       !.io = Append(@, "items_query")]
    /\ UNCHANGED icache

\* the count is awaited, the histories are cut and the response is created;
\* the handler hands it to AppResponse, get_or_cache_serialized_entity
\* serializes it first
RunCountQuery ==
    /\ ireq.pc = "count_query"
    /\ LET items_count == Count(CountQuery(ireq.fsi))
           response == create_pagination_response(LimitHistory(ireq.items), items_count,
                                                  ireq.pagination)
           req == [ireq EXCEPT !.response = response, !.io = Append(@, "count_query")]
       IN ireq' = IF ireq.default
                  THEN [req EXCEPT !.pc = "cache_set", !.bytes = SerializeResponse(response)]
                  ELSE Respond(req, FALSE, response)
    /\ UNCHANGED icache

\* get_or_cache_serialized_entity: await cache_data, return the bytes
ItemsCacheWrite ==
    /\ ireq.pc = "cache_set"
    /\ \E ok \in BOOLEAN :
         LET req == [ireq EXCEPT !.io = Append(@, "cache_set")]
         IN IF ok
            THEN /\ ireq' = Respond(req, TRUE, req.bytes)
                 /\ icache' = ItemsCacheSet(icache, ireq.key, ireq.bytes)
            ELSE /\ ireq' = Fail([req EXCEPT !.bytes = NoBytes], 500)
                 /\ UNCHANGED icache

ReceiveCategories ==
    /\ ireq.pc = "idle"
    /\ ireq.n < MaxItemReqs
    /\ ireq' = [IdleItems EXCEPT !.kind = "categories", !.pc = "categories_query",
                                 !.n = ireq.n + 1]
    /\ UNCHANGED icache

\* get_all_categories
RunCategoriesQuery ==
    /\ ireq.pc = "categories_query"
    /\ LET response == BaseResponse(CategoryGroups, "category_groups")
       IN ireq' = Respond([ireq EXCEPT !.response = response,
                                       !.io = Append(@, "categories_query")],
                          FALSE, response)
    /\ UNCHANGED icache

\* the ttl of an items entry elapses
ExpireItems ==
    /\ \E k \in DOMAIN icache : icache' = [j \in DOMAIN icache \ {k} |-> icache[j]]
    /\ UNCHANGED ireq

(***************************************************************************)
(* The parsers and the pagination helper, called on their own.             *)
(***************************************************************************)
\* filter_sort_input=None
NoFilterSortInput == [none |-> TRUE]

\* the query of the page that services/poe.py get_items builds
GetItemsQuery(pagination, filter_sort_input) ==
    IF filter_sort_input = NoFilterSortInput
    THEN ChainPaginate(EmptyQuery, pagination)
    ELSE ItemsQuery(filter_sort_input, pagination)

\* services/poe.py get_items, for the order `o` in which the store answers:
\* the histories are cut on the path with a filter_sort_input only
get_items(pagination, filter_sort_input, o) ==
    IF filter_sort_input = NoFilterSortInput
    THEN ToList(GetItemsQuery(pagination, filter_sort_input), o)
    ELSE LimitHistory(ToList(GetItemsQuery(pagination, filter_sort_input), o))

NoCall ==
    [fn |-> "none", pc |-> "idle", params |-> NoParams, pagination |-> NoPagination,
     total_items |-> 0, parsed |-> ParsedNone, response |-> NoResponse,
     filter_ |-> ParsedNone, query |-> EmptyQuery,
     filter_sort_input |-> NoFilterSortInput, items |-> <<>>]

\* the `sort` query parameter values of the calls
SortArguments ==
    {<<"-">> \o S_chaos_price, <<"N", "a", "m", "e">>, <<"-", "C", "a", "t", "e", "g", "o", "r", "y">>,
     S_category, <<"1">> \o S_name, <<"-">>, <<>>}

\* the `filter` query parameter values of the calls
FilterArguments ==
    {S_category \o <<":", "=", ":", "a", "b">>,
     <<"C", "a", "t", "e", "g", "o", "r", "y", ":">> \o S_like \o <<":", "A", "b">>,
     S_chaos_price \o <<":", ">", "=", ":", "1">>,
     <<":", "!", "=", ":", "1">>,
     S_name \o <<":", "<", ":">> \o [i \in 1..MAX_VALUE_LENGTH |-> "x"],
     S_name \o <<":", "<", ":">> \o [i \in 1..(MAX_VALUE_LENGTH + 1) |-> "x"],
     S_category \o <<":", "L", "I", "K", "E", ":", "a">>,
     S_category \o <<":", "=", ":">>,
     S_category \o <<":", "=", ":", "a", ":", "b">>,
     S_category}

ArgumentLists(tokens) == UNION {[1..n -> tokens] : n \in 0..MaxArguments}
Arguments(tokens) == {NoParams} \cup {Params(l) : l \in ArgumentLists(tokens)}

\* the per_page values of the calls: the least, small ones, the default
\* and the greatest
PerPageArguments == {1, 2, 10, MAXIMUM_ITEMS_PER_PAGE - 1, MAXIMUM_ITEMS_PER_PAGE}

CallParseSort ==
    /\ call.fn = "parse_sort_input"
    /\ call.pc = "called"
    /\ call' = [call EXCEPT !.pc = "returned", !.parsed = parse_sort_input(call.params)]
    /\ UNCHANGED <<uvars, ivars, listing, cvars>>

CallParseFilter ==
    /\ call.fn = "parse_filter_input"
    /\ call.pc = "called"
    /\ call' = [call EXCEPT !.pc = "returned", !.parsed = parse_filter_input(call.params)]
    /\ UNCHANGED <<uvars, ivars, listing, cvars>>

CallPaginationResponse ==
    /\ call.fn = "create_pagination_response"
    /\ call.pc = "called"
    /\ call' = [call EXCEPT !.pc = "returned",
                            !.response = create_pagination_response(<<>>, call.total_items,
                                                                    call.pagination)]
    /\ UNCHANGED <<uvars, ivars, listing, cvars>>

\* the clauses handed to filter_on_query: every operation on a nested and
\* on a plain field, with a value that is a number and one that is not
ClauseArguments ==
    [field : {S_chaos_price, S_category}, operation : FILTER_OPERATION,
     value : {<<"1", "2">>, <<"a", "b">>}]

CallFilterOnQuery ==
    /\ call.fn = "filter_on_query"
    /\ call.pc = "called"
    /\ call' = [call EXCEPT !.pc = "returned",
                            !.query = filter_on_query(EmptyQuery, call.filter_)]
    /\ UNCHANGED <<uvars, ivars, listing, cvars>>

\* the filter_sort_input values of the get_items calls: None, an input
\* without filter and sort, and the default request
FilterSortArguments ==
    {NoFilterSortInput,
     FilterSortInput(NoParams, NoParams),
     FilterSortInput(Params(<<S_category \o <<":", "=", ":", "a", "b">>>>),
                     Params(<<<<"-">> \o S_chaos_price>>))}

CallGetItems ==
    /\ call.fn = "get_items"
    /\ call.pc = "called"
    /\ LET query == GetItemsQuery(call.pagination, call.filter_sort_input)
       IN IF query.raised
          THEN call' = [call EXCEPT !.pc = "raised"]
          ELSE \E o \in Orderings(FilterQuery(query), query.sort) :
                  call' = [call EXCEPT !.pc = "returned",
                                       !.items = get_items(call.pagination,
                                                           call.filter_sort_input, o)]
    /\ UNCHANGED <<uvars, ivars, listing, cvars>>

(***************************************************************************)
(* Token lifetimes, the cached user behind get_current_user and the        *)
(* scheduled deletion of blacklisted tokens, on a wall clock in seconds.   *)
(* One user (id 1) exists throughout.                                      *)
(***************************************************************************)
\* the instant the application starts
Startup == 2 * ONE_DAY

\* the clock stops at the cron instant of the last day
MaxTime == Startup + MaxDays * ONE_DAY + CRON_OFFSET

\* CronTrigger(hour=00, minute=5): the first firing instant after t
NextFire(t) == ((t - CRON_OFFSET) \div ONE_DAY + 1) * ONE_DAY + CRON_OFFSET

\* the trigger fires at the current instant and the job has not run yet
Due == (now - CRON_OFFSET) % ONE_DAY = 0 /\ ran # now

CutoffDayAhead(utcnow) == utcnow + ONE_DAY

\* delete_older_than = utcnow() - timedelta(days=1)
Cutoff(utcnow) == utcnow - ONE_DAY

NoSession == [refresh_token |-> FALSE, expiration_time |-> 0]

NoOutcome == [token |-> [sub |-> 0, exp |-> 0], at |-> 0, blacklisted |-> FALSE, status |-> 0]

\* create a token for the user, expiring ACCESS_TOKEN_DURATION from now
CreateBearerToken(sub, utcnow) == [sub |-> sub, exp |-> utcnow + ACCESS_TOKEN_DURATION]

\* jwt.decode raises once the exp claim has passed
CheckBearerToken(token) == now < token.exp

BlacklistRecord(token) == [access_token |-> token, expiration_time |-> token.exp]

Blacklisted(token) == \E rec \in revoked : rec.access_token = token

\* check_access_token lets the request through
AccessTokenPasses(token) == CheckBearerToken(token) /\ ~Blacklisted(token)

\* redis still holds users:{id}
CachedUser == now < cachedUntil

\* records the collection may hold when the application starts: of a token
\* that expired two days before, and of one that expires at startup
StoredRecords ==
    {BlacklistRecord(CreateBearerToken(1, Startup - 2 * ONE_DAY)),
     BlacklistRecord(CreateBearerToken(1, Startup - ACCESS_TOKEN_DURATION))}

\* setup_services: the cutoff is computed from the clock once, here
SetupServices(stored) ==
    /\ now = Startup
    /\ ticks = 0
    /\ session = NoSession
    /\ held = {}
    /\ cachedUntil = 0
    /\ revoked = stored
    /\ delete_older_than = Cutoff(now)
    /\ ran = 0
    /\ outcome = NoOutcome

InitClockVars == SetupServices({})

\* time passes; the scheduler runs a due job before the clock moves on
Tick(d) ==
    /\ ~Due
    /\ now < MaxTime
    /\ d = HalfHour => ticks < MaxTicks
    /\ now' = Min(now + d, NextFire(now))
    /\ ticks' = IF d = HalfHour THEN ticks + 1 ELSE ticks
    /\ UNCHANGED <<session, held, cachedUntil, revoked, delete_older_than, ran, outcome>>

\* the application keeps running past the last day the clock counts: one
\* more day goes by and the trigger fires again, with the instants of the
\* tokens, records and entries kept as they stand relative to the clock
NextDay ==
    /\ now = MaxTime
    /\ ran = now
    /\ ran' = 0
    /\ UNCHANGED <<now, ticks, session, held, cachedUntil, revoked, delete_older_than, outcome>>

\* POST /auth/login with the right password
LoginClock ==
    /\ Cardinality(held) < MaxHeld
    /\ held' = held \cup {CreateBearerToken(1, now)}
    /\ session' = [refresh_token |-> TRUE,
                   expiration_time |-> now + REFRESH_TOKEN_DURATION]
    /\ cachedUntil' = now + SINGLE_USER_CACHE_DURATION
    /\ UNCHANGED <<now, ticks, revoked, delete_older_than, ran, outcome>>

\* POST /auth/refresh with the session's refresh token
RefreshClock ==
    /\ session.refresh_token
    /\ now < session.expiration_time
    /\ Cardinality(held) < MaxHeld
    /\ CreateBearerToken(1, now) \notin held
    /\ held' = held \cup {CreateBearerToken(1, now)}
    /\ UNCHANGED <<now, ticks, session, cachedUntil, revoked, delete_older_than, ran, outcome>>

\* a request to an endpoint that depends on get_current_user
GuardedRequest(token) ==
    /\ outcome' = [token |-> token, at |-> now, blacklisted |-> Blacklisted(token),
                   status |-> IF ~AccessTokenPasses(token) THEN 403
                              ELSE IF ~CachedUser THEN 403
                              ELSE 200]
    /\ outcome' # outcome
    /\ UNCHANGED <<now, ticks, session, held, cachedUntil, revoked, delete_older_than, ran>>

\* GET /users/current: check_access_token, then get-or-cache of users:{id}
FetchCurrentClock(token) ==
    /\ AccessTokenPasses(token)
    /\ ~CachedUser
    /\ cachedUntil' = now + SINGLE_USER_CACHE_DURATION
    /\ UNCHANGED <<now, ticks, session, held, revoked, delete_older_than, ran, outcome>>

\* POST /auth/logout: blacklist the token, invalidate the refresh token
LogoutClock(token) ==
    /\ AccessTokenPasses(token)
    /\ CachedUser
    /\ revoked' = revoked \cup {BlacklistRecord(token)}
    /\ session' = NoSession
    /\ UNCHANGED <<now, ticks, held, cachedUntil, delete_older_than, ran, outcome>>

\* delete_expired_blacklisted_tokens(delete_older_than)
DeleteExpiredBlacklistedTokens ==
    /\ Due
    /\ revoked' = {rec \in revoked : ~(rec.expiration_time < delete_older_than)}
    /\ ran' = now
    /\ UNCHANGED <<now, ticks, session, held, cachedUntil, delete_older_than, outcome>>

Init ==
    /\ users = [u \in UserIds |-> IF u = 1 THEN SeedAdmin ELSE NoUser]
    /\ blacklist = {}
    /\ \E loggedIn \in BOOLEAN :
         /\ issued = IF loggedIn THEN {SeedToken} ELSE {}
         /\ cache = [k \in UserKeys |->
                       IF loggedIn /\ k = UserKey(1)
                       THEN [val |-> SerializeUser(SeedAdmin), ex |-> SINGLE_USER_CACHE_DURATION]
                       ELSE NoEntry]
    /\ nextId = 2
    /\ reqs = [r \in ReqIds |-> Idle]
    /\ started = 0
    /\ last = ClearAll
    /\ upd = ClearAll
    /\ notFound = {}
    /\ listing = NoEntry
    /\ InitClockVars
    /\ ireq = IdleItems
    /\ icache = EmptyCache
    /\ call = NoCall

Next ==
    \/ \E r \in ReqIds :
         \/ StartGetUser(r) /\ UNCHANGED <<ivars, call, listing, cvars>>
         \/ StartGetUsers(r) /\ UNCHANGED <<ivars, call, listing, cvars>>
         \/ GetCachedUsers(r) /\ UNCHANGED <<ivars, call, cvars>>
         \/ ComputeUsers(r) /\ UNCHANGED <<ivars, call, cvars>>
         \/ CacheUsers(r) /\ UNCHANGED <<ivars, call, cvars>>
         \/ StartUpdateUser(r) /\ UNCHANGED <<ivars, call, listing, cvars>>
         \/ StartDeleteUser(r) /\ UNCHANGED <<ivars, call, listing, cvars>>
         \/ StartCreateUser(r) /\ UNCHANGED <<ivars, call, listing, cvars>>
         \/ StartLogin(r) /\ UNCHANGED <<ivars, call, listing, cvars>>
         \/ StartLogout(r) /\ UNCHANGED <<ivars, call, listing, cvars>>
         \/ CheckAccessToken(r) /\ UNCHANGED <<ivars, call, listing, cvars>>
         \/ GetCurrentUser(r) /\ UNCHANGED <<ivars, call, listing, cvars>>
         \/ GetCachedEntity(r) /\ UNCHANGED <<ivars, call, listing, cvars>>
         \/ ComputeEntity(r) /\ UNCHANGED <<ivars, call, listing, cvars>>
         \/ CacheEntity(r) /\ UNCHANGED <<ivars, call, listing, cvars>>
         \/ UpdateDbGet(r) /\ UNCHANGED <<ivars, call, listing, cvars>>
         \/ UpdateDbReplace(r) /\ UNCHANGED <<ivars, call, listing, cvars>>
         \/ UpdateCacheSet(r) /\ UNCHANGED <<ivars, call, listing, cvars>>
         \/ DeleteDbGet(r) /\ UNCHANGED <<ivars, call, listing, cvars>>
         \/ DeleteCacheDel(r) /\ UNCHANGED <<ivars, call, listing, cvars>>
         \/ DeleteTxn(r) /\ UNCHANGED <<ivars, call, listing, cvars>>
         \/ CreateInsert(r) /\ UNCHANGED <<ivars, call, listing, cvars>>
         \/ CreateCacheSet(r) /\ UNCHANGED <<ivars, call, listing, cvars>>
         \/ LoginCheck(r) /\ UNCHANGED <<ivars, call, listing, cvars>>
         \/ LoginCacheSet(r) /\ UNCHANGED <<ivars, call, listing, cvars>>
         \/ LogoutDbGet(r) /\ UNCHANGED <<ivars, call, listing, cvars>>
         \/ LogoutTxn(r) /\ UNCHANGED <<ivars, call, listing, cvars>>
    \/ \E k \in UserKeys : Expire(k) /\ UNCHANGED <<ivars, call, listing, cvars>>
    \/ ExpireUsers /\ UNCHANGED <<ivars, call, cvars>>

Spec == Init /\ [][Next]_vars

InitItems ==
    /\ users = [u \in UserIds |-> IF u = 1 THEN SeedAdmin ELSE NoUser]
    /\ blacklist = {}
    /\ issued = {SeedToken}
    /\ cache = [k \in UserKeys |-> NoEntry]
    /\ nextId = 2
    /\ reqs = [r \in ReqIds |-> Idle]
    /\ started = 0
    /\ last = ClearAll
    /\ upd = ClearAll
    /\ notFound = {}
    /\ listing = NoEntry
    /\ InitClockVars
    /\ ireq = IdleItems
    /\ icache = EmptyCache
    /\ call = NoCall

NextItems ==
    \/ ReceiveItems /\ UNCHANGED <<uvars, call, listing, cvars>>
    \/ HandleItems /\ UNCHANGED <<uvars, call, listing, cvars>>
    \/ ItemsCacheRead /\ UNCHANGED <<uvars, call, listing, cvars>>
    \/ RunItemsQuery /\ UNCHANGED <<uvars, call, listing, cvars>>
    \/ RunCountQuery /\ UNCHANGED <<uvars, call, listing, cvars>>
    \/ ItemsCacheWrite /\ UNCHANGED <<uvars, call, listing, cvars>>
    \/ ReceiveCategories /\ UNCHANGED <<uvars, call, listing, cvars>>
    \/ RunCategoriesQuery /\ UNCHANGED <<uvars, call, listing, cvars>>
    \/ CloseRequest /\ UNCHANGED <<uvars, call, listing, cvars>>
    \/ ExpireItems /\ UNCHANGED <<uvars, call, listing, cvars>>

SpecItems == InitItems /\ [][NextItems]_vars

InitClock ==
    /\ users = [u \in UserIds |-> IF u = 1 THEN SeedAdmin ELSE NoUser]
    /\ blacklist = {}
    /\ issued = {}
    /\ cache = [k \in UserKeys |-> NoEntry]
    /\ nextId = 2
    /\ reqs = [r \in ReqIds |-> Idle]
    /\ started = 0
    /\ last = ClearAll
    /\ upd = ClearAll
    /\ notFound = {}
    /\ listing = NoEntry
    /\ ireq = IdleItems
    /\ icache = EmptyCache
    /\ call = NoCall
    /\ \E stored \in SUBSET StoredRecords : SetupServices(stored)

NextClock ==
    \/ \E d \in {HalfHour, ONE_DAY} : Tick(d) /\ UNCHANGED <<uvars, ivars, call, listing>>
    \/ NextDay /\ UNCHANGED <<uvars, ivars, call, listing>>
    \/ LoginClock /\ UNCHANGED <<uvars, ivars, call, listing>>
    \/ RefreshClock /\ UNCHANGED <<uvars, ivars, call, listing>>
    \/ \E token \in held :
         \/ GuardedRequest(token) /\ UNCHANGED <<uvars, ivars, call, listing>>
         \/ FetchCurrentClock(token) /\ UNCHANGED <<uvars, ivars, call, listing>>
         \/ LogoutClock(token) /\ UNCHANGED <<uvars, ivars, call, listing>>
    \/ DeleteExpiredBlacklistedTokens /\ UNCHANGED <<uvars, ivars, call, listing>>

SpecClock == InitClock /\ [][NextClock]_vars

\* the scheduler fires every due job and the clock keeps going
SpecClockFair ==
    /\ SpecClock
    /\ WF_vars(\E d \in {HalfHour, ONE_DAY} : Tick(d) /\ UNCHANGED <<uvars, ivars, call, listing>>)
    /\ WF_vars(NextDay /\ UNCHANGED <<uvars, ivars, call, listing>>)
    /\ WF_vars(DeleteExpiredBlacklistedTokens /\ UNCHANGED <<uvars, ivars, call, listing>>)

\* one call, with any of the arguments
InitPure ==
    /\ users = [u \in UserIds |-> IF u = 1 THEN SeedAdmin ELSE NoUser]
    /\ blacklist = {}
    /\ issued = {SeedToken}
    /\ cache = [k \in UserKeys |-> NoEntry]
    /\ nextId = 2
    /\ reqs = [r \in ReqIds |-> Idle]
    /\ started = 0
    /\ last = ClearAll
    /\ upd = ClearAll
    /\ notFound = {}
    /\ listing = NoEntry
    /\ InitClockVars
    /\ ireq = IdleItems
    /\ icache = EmptyCache
    /\ \/ \E p \in Arguments(SortArguments) :
            call = [NoCall EXCEPT !.fn = "parse_sort_input", !.pc = "called", !.params = p]
       \/ \E p \in Arguments(FilterArguments) :
            call = [NoCall EXCEPT !.fn = "parse_filter_input", !.pc = "called", !.params = p]
       \/ \E page \in 1..MaxPage, per_page \in PerPageArguments, total \in 0..MaxTotal :
            call = [NoCall EXCEPT !.fn = "create_pagination_response", !.pc = "called",
                                  !.pagination = [page |-> page, per_page |-> per_page],
                                  !.total_items = total]
       \/ \E page \in 1..MaxPage, per_page \in PerPageArguments, fsi \in FilterSortArguments :
            call = [NoCall EXCEPT !.fn = "get_items", !.pc = "called",
                                  !.pagination = [page |-> page, per_page |-> per_page],
                                  !.filter_sort_input = fsi]
       \/ \E entry \in ClauseArguments :
            call = [NoCall EXCEPT !.fn = "filter_on_query", !.pc = "called",
                                  !.filter_ = Parsed(<<entry>>)]

NextPure ==
    \/ CallParseSort
    \/ CallParseFilter
    \/ CallPaginationResponse
    \/ CallFilterOnQuery
    \/ CallGetItems

SpecPure == InitPure /\ [][NextPure]_vars

(***************************************************************************)
(* Claims about the items listing and the response envelope.               *)
(***************************************************************************)
\* the request has been parsed by the handler
ItemsParsed == ireq.kind = "items" /\ ireq.pc # "handler"

\* a filter token that is malformed: not three parts, an operation outside
\* the recognised ones, or a value of no or more than 200 characters
BadFilterToken(token) ==
    LET parts == Split(token)
    IN \/ Len(parts) # 3
       \/ parts[2] \notin FILTER_OPERATION
       \/ Len(parts[3]) < 1
       \/ Len(parts[3]) > MAX_VALUE_LENGTH

\* a sort token that is malformed: empty, or a first character that is
\* neither "-" nor a letter
BadSortToken(token) == token = <<>> \/ (token[1] # "-" /\ ~IsAlpha(token[1]))

HasBadFilterToken ==
    ~ireq.filter.none /\ \E i \in 1..Len(ireq.filter.tokens) : BadFilterToken(ireq.filter.tokens[i])
HasBadSortToken ==
    ~ireq.sort.none /\ \E i \in 1..Len(ireq.sort.tokens) : BadSortToken(ireq.sort.tokens[i])

\* C4 as claimed: whenever a list of filter tokens holds a malformed token at
\* any position, parse_filter_input raises.
C4_FilterParseAllOrNothing ==
    (ItemsParsed /\ HasBadFilterToken) => ireq.fsi.filter_.raised

\* the clauses get_items was given
GivenClauses(parsed) == IF parsed.none THEN <<>> ELSE parsed.clauses

\* a record matches a filter clause
ClauseHolds(doc, c) ==
    IF c.field = S_chaos_price
    THEN LET p == doc.price_info.chaos_price
             v == Decimal128(c.value)
         IN CASE c.operation = <<"=">> -> p = v
              [] c.operation = <<">">> -> p > v
              [] c.operation = <<">", "=">> -> p >= v
              [] c.operation = <<"<">> -> p < v
              [] c.operation = <<"<", "=">> -> p <= v
              [] OTHER -> FALSE
    ELSE LET a == IF c.field = S_name THEN doc.name ELSE doc.category
         IN CASE c.operation = <<"=">> -> a = c.value
              [] c.operation = <<"!", "=">> -> a # c.value
              [] c.operation = <<">">> -> StrLess(c.value, a)
              [] c.operation = <<">", "=">> -> a = c.value \/ StrLess(c.value, a)
              [] c.operation = <<"<">> -> StrLess(a, c.value)
              [] c.operation = <<"<", "=">> -> a = c.value \/ StrLess(a, c.value)
              [] OTHER -> Contains(a, c.value)

MatchingRecords(clauses) ==
    {i \in ItemIds : \A k \in 1..Len(clauses) : ClauseHolds(ItemDoc(i), clauses[k])}

\* record a comes strictly before record b under one sort clause
ClauseOrders(a, b, c) ==
    LET lt(x, y) == IF c.field = S_chaos_price
                    THEN x.price_info.chaos_price < y.price_info.chaos_price
                    ELSE IF c.field = S_name THEN StrLess(x.name, y.name)
                    ELSE IF c.field = S_category THEN StrLess(x.category, y.category)
                    ELSE FALSE
    IN IF c.operation = S_asc THEN lt(a, b) ELSE lt(b, a)

\* the first sort clause that tells a and b apart puts a first
RECURSIVE OrderedBefore(_, _, _)
OrderedBefore(a, b, clauses) ==
    /\ clauses # <<>>
    /\ \/ ClauseOrders(a, b, Head(clauses))
       \/ /\ ~ClauseOrders(b, a, Head(clauses))
          /\ OrderedBefore(a, b, Tail(clauses))

\* the ids of the returned records are the positions offset + 1 .. offset +
\* per_page of an arrangement of `ids` that respects the sort clauses
IsPageOf(returned, ids, sort, pagination) ==
    \E o \in [1..Cardinality(ids) -> ids] :
        /\ \A i, j \in DOMAIN o : i # j => o[i] # o[j]
        /\ \A i, j \in DOMAIN o :
              i < j => ~OrderedBefore(ItemDoc(o[j]), ItemDoc(o[i]), sort)
        /\ LET first == (pagination.page - 1) * pagination.per_page + 1
               last_ == Min(Len(o), first + pagination.per_page - 1)
           IN /\ Len(returned) = IF last_ < first THEN 0 ELSE last_ - first + 1
              /\ \A k \in 1..Len(returned) : returned[k].poe_ninja_id = o[first + k - 1]

\* get_items has returned to the handler
ItemsComputed ==
    /\ ireq.kind = "items"
    /\ ireq.pc \in {"cache_set", "done"}
    /\ ireq.io # <<>>
    /\ "count_query" \in Range(ireq.io)

\* C5: whenever get_items returns, the records it returns are the page
\* offset .. offset + per_page - 1 of the records matching every filter
\* clause, arranged by the sort clauses in the order given, and total_items
\* is the number of records matching the filter clauses, whatever the page
\* and per_page.
C5_GetItemsPageAndTotal ==
    ItemsComputed =>
        LET matching == MatchingRecords(GivenClauses(ireq.fsi.filter_))
            data == ireq.response.data
        IN /\ IsPageOf(data.items, matching, GivenClauses(ireq.fsi.sort), ireq.pagination)
           /\ data.pagination.total_items = Cardinality(matching)

C5_Witness ==
    /\ ItemsComputed
    /\ ireq.pc = "done"
    /\ Len(GivenClauses(ireq.fsi.filter_)) = 1
    /\ GivenClauses(ireq.fsi.sort) # <<>>
    /\ ireq.pagination = [page |-> 2, per_page |-> 1]
    /\ Len(ireq.response.data.items) = 1
    /\ ireq.response.data.pagination.total_items = 2

\* C6 as claimed: a byte payload handed to the response step is sent as it
\* is and the step does not fail; an envelope is JSON-encoded once.
C6_BytesPassThrough ==
    (ireq.pc = "done" /\ ireq.handed # "none") =>
        /\ ~ireq.out.raised
        /\ ireq.handed = "bytes" => ireq.out.body = ireq.bytes
        /\ ireq.handed = "envelope" => ireq.out.body = JsonDumps(ModelDump(ireq.response))

\* C7 as claimed: the serialized form of an envelope built with key k and
\* payload p has data = {k: p}; without a key it has data = p.
C7_EnvelopeKeyNesting ==
    (ireq.pc = "done" /\ ireq.handed = "envelope") =>
        JsonLoads(ireq.out.body).data =
            IF ireq.response.key = "none" THEN ireq.response.data
            ELSE (ireq.response.key :> ireq.response.data)

\* C10 as claimed: an items request with a malformed filter or sort token is
\* rejected in the handler, before any cache read, cache write or store
\* query.
C10_FailFastOnParsing ==
    (ItemsParsed /\ (HasBadFilterToken \/ HasBadSortToken)) =>
        /\ ireq.pc = "done"
        /\ ireq.status = 422
        /\ ireq.io = <<>>

\* C11 as claimed: whenever a list of sort tokens holds, at any position, a
\* token that is empty or starts with a character that is neither "-" nor a
\* letter, parse_sort_input raises.
C11_SortParseRejectsBatch ==
    (ItemsParsed /\ HasBadSortToken) => ireq.fsi.sort.raised

(***************************************************************************)
(* Claims about the parsers and the pagination helper.                     *)
(***************************************************************************)
Returned(fn) == call.fn = fn /\ call.pc = "returned"
HasUpperCase(str) == \E i \in 1..Len(str) : IsIn(UpperCase, str[i])

\* C12: in what parse_sort_input returns, the k-th clause comes from the k-th
\* token: a token with a leading "-" gives direction desc and the rest of the
\* token, lower-cased, as field; a token that starts with a letter gives
\* direction asc and the whole token, lower-cased, as field; and when no
\* token is malformed there is one clause per token.
C12_SortDirection ==
    (Returned("parse_sort_input") /\ ~call.params.none /\ ~call.parsed.raised) =>
        LET tokens == call.params.tokens
            clauses == call.parsed.clauses
        IN /\ Len(clauses) <= Len(tokens)
           /\ (\A k \in 1..Len(tokens) : ~BadSortToken(tokens[k])) => Len(clauses) = Len(tokens)
           /\ \A k \in 1..Len(clauses) :
                 /\ ~HasUpperCase(clauses[k].field)
                 /\ IF tokens[k][1] = "-"
                    THEN /\ clauses[k].operation = S_desc
                         /\ clauses[k].field = Lower(Tail(tokens[k]))
                         /\ Len(clauses[k].field) = Len(tokens[k]) - 1
                    ELSE /\ IsAlpha(tokens[k][1])
                         /\ clauses[k].operation = S_asc
                         /\ clauses[k].field = Lower(tokens[k])
                         /\ Len(clauses[k].field) = Len(tokens[k])

C12_Witness ==
    /\ Returned("parse_sort_input")
    /\ call.params.tokens = <<<<"-", "C", "a", "t", "e", "g", "o", "r", "y">>, <<"N", "a", "m", "e">>>>
    /\ call.parsed.clauses = <<[field |-> S_category, operation |-> S_desc],
                               [field |-> S_name, operation |-> S_asc]>>

\* C13: a list of n well-formed filter tokens parses to n clauses in the order
\* of the tokens, the k-th holding the field of the k-th token lower-cased,
\* its operation and its value unchanged.
C13_FilterRoundTrip ==
    (/\ Returned("parse_filter_input")
     /\ ~call.params.none
     /\ \A k \in 1..Len(call.params.tokens) : ~BadFilterToken(call.params.tokens[k])) =>
        LET tokens == call.params.tokens
            clauses == call.parsed.clauses
        IN /\ ~call.parsed.raised
           /\ Len(clauses) = Len(tokens)
           /\ \A k \in 1..Len(tokens) :
                 LET parts == Split(tokens[k])
                 IN /\ clauses[k].field = Lower(parts[1])
                    /\ ~HasUpperCase(clauses[k].field)
                    /\ clauses[k].operation = parts[2]
                    /\ clauses[k].value = parts[3]
                    /\ clauses[k].field \o <<":">> \o clauses[k].operation \o <<":">>
                          \o clauses[k].value = Lower(SubSeq(tokens[k], 1, Len(parts[1])))
                                \o SubSeq(tokens[k], Len(parts[1]) + 1, Len(tokens[k]))

C13_Witness ==
    /\ Returned("parse_filter_input")
    /\ Len(call.params.tokens) = 2
    /\ Len(call.parsed.clauses) = 2
    /\ call.parsed.clauses[1] = [field |-> S_category, operation |-> S_like, value |-> <<"A", "b">>]
    /\ Len(call.parsed.clauses[2].value) = MAX_VALUE_LENGTH

\* C14: create_pagination_response reports as total_pages the least number
\* of pages of per_page items that hold total_items items, which is 0 for no
\* items, and gives back page, per_page and total_items as they came.
C14_PaginationMath ==
    Returned("create_pagination_response") =>
        LET p == call.response.data.pagination
        IN /\ p.total_pages * call.pagination.per_page >= call.total_items
           /\ p.total_pages >= 0
           /\ p.total_pages > 0 =>
                 (p.total_pages - 1) * call.pagination.per_page < call.total_items
           /\ call.total_items = 0 => p.total_pages = 0
           /\ p.page = call.pagination.page
           /\ p.per_page = call.pagination.per_page
           /\ p.total_items = call.total_items

C14_Witness ==
    /\ Returned("create_pagination_response")
    /\ call.total_items = 101
    /\ call.pagination.per_page = 10
    /\ call.response.data.pagination.total_pages = 11

(***************************************************************************)
(* Claims about the pagination input.                                      *)
(***************************************************************************)
OutOfRange(pagination) ==
    \/ pagination.page <= 0
    \/ pagination.per_page <= 0
    \/ pagination.per_page > MAXIMUM_ITEMS_PER_PAGE

\* C15: an items request whose page or per_page is out of range ends with a
\* validation error before the handler runs: no cache or store call is
\* made, no response is built for a clamped value, and every query that
\* runs has a page and per_page in range as the client sent them.
C15_PaginationOutOfRangeRejected ==
    ireq.kind = "items" =>
        /\ OutOfRange(ireq.pagination) =>
              /\ ireq.pc = "done"
              /\ ireq.status = 422
              /\ ireq.io = <<>>
              /\ ireq.response = NoResponse
              /\ ireq.handed = "none"
        /\ ireq.io # <<>> => ~OutOfRange(ireq.pagination)
        /\ ireq.response # NoResponse =>
              /\ ireq.response.data.pagination.per_page = ireq.pagination.per_page
              /\ ireq.response.data.pagination.page = ireq.pagination.page

C15_Witness ==
    /\ ireq.kind = "items"
    /\ ireq.pc = "done"
    /\ ireq.status = 422
    /\ ireq.pagination = [page |-> 1, per_page |-> MAXIMUM_ITEMS_PER_PAGE + 1]

(***************************************************************************)
(* Claims about DELETE /users/{user_id}.                                   *)
(***************************************************************************)
\* C16: once DELETE /users/{user_id} has ended with 204, the store holds no
\* user with the id of the path.
C16_DeleteRemovesPathUser ==
    \A r \in ReqIds :
        (reqs[r].kind = "delete_user" /\ reqs[r].pc = "done" /\ reqs[r].status = 204)
            => users[reqs[r].uid] = NoUser

(***************************************************************************)
(* Claims about logout and the blacklist.                                  *)
(***************************************************************************)
\* C17: the step on which a logout ends with 204 leaves its access token on
\* the blacklist, and every request that reaches check_access_token with a
\* token on the blacklist ends with 403 on that step, whatever its endpoint.
C17_BlacklistedTokenRejected ==
    [][\A r \in ReqIds :
        /\ (reqs[r].pc = "logout_txn" /\ reqs'[r].pc = "done" /\ reqs'[r].status = 204)
              => reqs[r].tok \in blacklist'
        /\ (reqs[r].pc = "auth" /\ reqs[r].tok \in blacklist /\ reqs'[r] # reqs[r])
              => /\ reqs'[r].pc = "done"
                 /\ reqs'[r].status = 403
                 /\ reqs'[r].trace = <<"auth_403">>]_vars

C17_Witness ==
    \E r, q \in ReqIds :
        /\ reqs[q].kind = "logout" /\ reqs[q].pc = "done" /\ reqs[q].status = 204
        /\ reqs[r].kind = "get_user" /\ reqs[r].pc = "done" /\ reqs[r].status = 403
        /\ reqs[r].tok = reqs[q].tok
        /\ reqs[r].tok \in issued
        /\ reqs[r].seq = 0 /\ reqs[r].trace = <<"auth_403">>

(***************************************************************************)
(* Claims about POST /users/.                                              *)
(***************************************************************************)
WithEmail(store, email) == {u \in UserIds : store[u] # NoUser /\ store[u].email = email}

\* C18: the insert of a user whose email a stored user has ends the request
\* with 400, error type invalid_input and the message 'Email associated
\* with another account.'; the store is left with exactly one user of that
\* email, no id is used up and the cache is not written.
C18_DuplicateEmailRejected ==
    [][\A r \in ReqIds :
        (/\ reqs[r].kind = "create_user"
         /\ reqs[r].pc = "db_insert"
         /\ reqs'[r] # reqs[r]
         /\ WithEmail(users, reqs[r].email) # {})
        => /\ reqs'[r].pc = "done"
           /\ reqs'[r].status = 400
           /\ handle_invalid_input_exception(reqs'[r].status, reqs'[r].detail)
                 = [type |-> "invalid_input",
                    message |-> "Email associated with another account."]
           /\ users' = users
           /\ Cardinality(WithEmail(users', reqs[r].email)) = 1
           /\ nextId' = nextId
           /\ cache' = cache]_vars

C18_Witness ==
    \E r \in ReqIds :
        /\ reqs[r].kind = "create_user"
        /\ reqs[r].pc = "done"
        /\ reqs[r].status = 400
        /\ reqs[r].detail = "Email associated with another account."
        /\ users[2] # NoUser

(***************************************************************************)
(* Claims about the steps of one get_or_cache_serialized_entity call.      *)
(***************************************************************************)
\* the steps a call may have taken when it is at `pc`
CallSteps(pc) ==
    CASE pc = "cache_get" -> {<<>>}
      [] pc = "compute" -> {<<"miss">>}
      [] pc = "cache_set" -> {<<"miss", "compute">>}
      [] pc = "done" -> {<<"hit">>, <<"get_err">>, <<"miss", "compute_404">>,
                         <<"miss", "compute", "set">>, <<"miss", "compute", "set_err">>}
      [] OTHER -> {}

\* C19: every step of a get-or-cache call keeps the order read, compute,
\* write with each at most once and nothing after a failure; the read and
\* the compute leave the cache alone, a hit answers with the cached bytes,
\* and the write stores the computed bytes once with the ttl and answers
\* with the bytes it stored.
C19_StepOrderNoRetries ==
    [][\A r \in ReqIds :
        (/\ reqs[r].kind = "get_user"
         /\ reqs[r].pc \in {"cache_get", "compute", "cache_set"}
         /\ reqs'[r] # reqs[r])
        => LET key == UserKey(reqs[r].uid)
               steps == Tail(reqs'[r].trace)
           IN /\ steps \in CallSteps(reqs'[r].pc)
              /\ Len(reqs'[r].trace) = Len(reqs[r].trace) + 1
              /\ users' = users
              /\ reqs[r].pc # "cache_set" => cache' = cache
              /\ Last(steps) = "hit" =>
                    /\ cache[key] # NoEntry
                    /\ reqs'[r].payload = cache[key].val
              /\ Last(steps) = "miss" => cache[key] = NoEntry
              /\ Last(steps) = "set" =>
                    /\ cache' = [cache EXCEPT ![key] =
                                    [val |-> reqs[r].payload,
                                     ex |-> SINGLE_USER_CACHE_DURATION]]
                    /\ reqs'[r].payload = reqs[r].payload
              /\ Last(steps) = "set_err" => cache' = cache]_vars

C19_Witness ==
    \E r \in ReqIds :
        /\ reqs[r].kind = "get_user"
        /\ reqs[r].pc = "done"
        /\ reqs[r].trace = <<"auth", "miss", "compute", "set">>
        /\ cache[UserKey(reqs[r].uid)] =
              [val |-> reqs[r].payload, ex |-> SINGLE_USER_CACHE_DURATION]

(***************************************************************************)
(* Claims about concurrent calls for one key.                              *)
(***************************************************************************)
\* the other calls that missed `r`'s key and have not written it yet
InFlight(r) ==
    {q \in ReqIds \ {r} : /\ reqs[q].kind = "get_user"
                          /\ reqs[q].uid = reqs[r].uid
                          /\ reqs[q].pc \in {"compute", "cache_set"}}

\* C20: no single-flight guard: a call whose cache read finds the key absent
\* goes on to the compute function although another call for the same key
\* is computing or about to write, its compute goes on to the cache write,
\* and its write, when redis accepts it, stores its bytes over the other's.
C20_NoSingleFlight ==
    [][\A r \in ReqIds :
        (/\ reqs[r].kind = "get_user"
         /\ reqs'[r] # reqs[r]
         /\ InFlight(r) # {})
        => LET key == UserKey(reqs[r].uid)
           IN /\ (reqs[r].pc = "cache_get" /\ cache[key] = NoEntry)
                    => \/ reqs'[r].pc = "compute"
                       \/ reqs'[r].pc = "done" /\ reqs'[r].status = 500
              /\ (reqs[r].pc = "compute" /\ users[reqs[r].uid] # NoUser)
                    => reqs'[r].pc = "cache_set"
              /\ (reqs[r].pc = "cache_set" /\ reqs'[r].status # 500)
                    => cache'[key].val = reqs[r].payload]_vars

\* two calls for one key both missed and computed; one has written the key
\* and the other is about to write it again
C20_Witness ==
    \E r, q \in ReqIds :
        /\ r # q
        /\ reqs[r].kind = "get_user" /\ reqs[q].kind = "get_user"
        /\ reqs[r].uid = reqs[q].uid
        /\ reqs[r].pc = "done"
        /\ reqs[r].trace = <<"auth", "miss", "compute", "set">>
        /\ reqs[q].pc = "cache_set"
        /\ reqs[q].trace = <<"auth", "miss", "compute">>
        /\ cache[UserKey(reqs[r].uid)] # NoEntry

(***************************************************************************)
(* Claims about reads interleaved with an update.                          *)
(***************************************************************************)
\* C21: once a read of user X that wrote the cache and an update of X have
\* both completed, the entry users:X is absent or is the serialization of
\* X's store record.
C21_NoLastingStaleEntry ==
    \A r, q \in ReqIds :
        (/\ reqs[r].kind = "get_user" /\ reqs[r].pc = "done"
         /\ reqs[r].trace = <<"auth", "miss", "compute", "set">>
         /\ reqs[q].kind = "update_user" /\ reqs[q].pc = "done" /\ reqs[q].status = 204
         /\ reqs[q].uid = reqs[r].uid
         /\ users[reqs[r].uid] # NoUser)
        => LET key == UserKey(reqs[r].uid)
           IN \/ cache[key] = NoEntry
              \/ cache[key].val = SerializeUser(users[reqs[r].uid])

(***************************************************************************)
(* Claims about the items cache key.                                       *)
(***************************************************************************)
\* C22: the bytes a request reads from the cache were stored by a request
\* with the same per_page (as with the same page, filter and sort clauses).
C22_CacheKeySeparatesRequests ==
    (ireq.kind = "items" /\ ireq.io = <<"cache_get">> /\ ireq.bytes # NoBytes)
        => JsonLoads(ireq.bytes).data.pagination.per_page = ireq.pagination.per_page

(***************************************************************************)
(* Claims about the authorization of user writes.                          *)
(***************************************************************************)
\* the caller of `req` is a stored user who is no admin and not the user of
\* the path
ForeignCaller(req) ==
    /\ req.tok.sub \in UserIds
    /\ users[req.tok.sub] # NoUser
    /\ users[req.tok.sub].role # "admin"
    /\ req.tok.sub # req.uid

\* C23: an update or delete whose caller is no admin and not the user of
\* the path never gets past the dependencies and the access check: its
\* steps change no store record, blacklist record or cache entry, and the
\* step that reads the caller ends the request with 403 (500 when the cache
\* read itself fails).
C23_ForeignWriteRejected ==
    [][\A r \in ReqIds :
        (/\ reqs[r].kind \in {"update_user", "delete_user"}
         /\ reqs[r].pc \notin {"idle", "done"}
         /\ reqs'[r] # reqs[r]
         /\ ForeignCaller(reqs[r]))
        => /\ reqs[r].pc \in {"auth", "current_user"}
           /\ users' = users /\ blacklist' = blacklist /\ cache' = cache
           /\ reqs[r].pc = "auth" => reqs'[r].pc = "current_user" \/ reqs'[r].status = 403
           /\ reqs[r].pc = "current_user" =>
                 /\ reqs'[r].pc = "done"
                 /\ \/ reqs'[r].status = 403
                    \/ reqs'[r].status = 500 /\ Last(reqs'[r].trace) = "cur_err"]_vars

C23_Witness ==
    \E r \in ReqIds :
        /\ reqs[r].kind \in {"update_user", "delete_user"}
        /\ reqs[r].pc = "done"
        /\ reqs[r].status = 403
        /\ reqs[r].trace = <<"auth", "access_403">>
        /\ ForeignCaller(reqs[r])

(***************************************************************************)
(* Claims about the collection key `users`.                                *)
(***************************************************************************)
\* C25: a GET /users/ that is answered from the cache while no other
\* request is in flight is answered with the users the store holds.
C25_CollectionFollowsWrites ==
    [][\A r \in ReqIds :
        (/\ reqs[r].kind = "get_users"
         /\ reqs[r].pc = "cache_get_all"
         /\ reqs'[r].pc = "done"
         /\ Last(reqs'[r].trace) = "hit"
         /\ \A q \in ReqIds \ {r} : Free(q))
        => reqs'[r].payload = SerializeUsers]_vars

(***************************************************************************)
(* Claims about the default request shape.                                 *)
(***************************************************************************)
\* one filter clause on `category` and one sort clause, price_info.chaos_price
\* descending
DefaultShape(fsi) ==
    /\ ~fsi.filter_.none /\ Len(fsi.filter_.clauses) = 1
    /\ fsi.filter_.clauses[1].field = S_category
    /\ ~fsi.sort.none /\ Len(fsi.sort.clauses) = 1
    /\ fsi.sort.clauses[1].field = S_chaos_price
    /\ fsi.sort.clauses[1].operation = S_desc

\* C26: an items request reads or writes the cache only when it has the
\* default shape.
C26_CacheOnlyForDefaultShape ==
    (ireq.kind = "items" /\ \E i \in 1..Len(ireq.io) : ireq.io[i] \in {"cache_get", "cache_set"})
        => DefaultShape(ireq.fsi)

(***************************************************************************)
(* Claims about filters on nested fields.                                  *)
(***************************************************************************)
\* the clause a filter_on_query call was given
Entry == call.filter_.clauses[1]

\* C27: for a clause on a nested field, >, >=, <, <= and = become $gt, $gte,
\* $lt, $lte and $eq on the decimal of the value, `like` becomes a regex on
\* the value, and != , which the nested table lacks, raises and leaves no
\* store query.
C27_NestedOperations ==
    (Returned("filter_on_query") /\ IsNested(Entry.field)) =>
        LET op == Entry.operation
            bson == CASE op = <<">">> -> "$gt"
                      [] op = <<">", "=">> -> "$gte"
                      [] op = <<"<">> -> "$lt"
                      [] op = <<"<", "=">> -> "$lte"
                      [] op = <<"=">> -> "$eq"
                      [] OTHER -> "none"
        IN IF op = S_like
           THEN call.query = [EmptyQuery EXCEPT !.find =
                                 <<[field |-> Entry.field, op |-> "$regex", num |-> 0,
                                    str |-> Entry.value]>>]
           ELSE IF op = <<"!", "=">> \/ ~IsDecimal(Entry.value)
           THEN call.query.raised /\ call.query.find = <<>>
           ELSE call.query = [EmptyQuery EXCEPT !.find =
                                 <<[field |-> Entry.field, op |-> bson,
                                    num |-> Decimal128(Entry.value), str |-> <<>>]>>]

C27_Witness ==
    /\ Returned("filter_on_query")
    /\ Entry = [field |-> S_chaos_price, operation |-> <<"=">>, value |-> <<"1", "2">>]
    /\ call.query.find = <<[field |-> S_chaos_price, op |-> "$eq", num |-> 12, str |-> <<>>]>>

\* C27 as stated: a clause on a nested field with = or != yields no store
\* query.
C27_NoNestedEquality ==
    (/\ Returned("filter_on_query")
     /\ IsNested(Entry.field)
     /\ Entry.operation \in {<<"=">>, <<"!", "=">>})
        => call.query.raised /\ call.query.find = <<>>

C24_ValidTokenAccepted ==
    outcome.status = 403 =>
        ~(outcome.at < outcome.token.exp /\ ~outcome.blacklisted)

\* C29: a run of the scheduled deletion never deletes a blacklist record
\* whose expiration time is still in the future, and a request carrying a
\* blacklisted token is rejected with 403.
C29_CleanupKeepsLiveRecords ==
    [][/\ \A rec \in revoked : now < rec.expiration_time => rec \in revoked'
       /\ (outcome' # outcome /\ \E rec \in revoked : rec.access_token = outcome'.token)
             => outcome'.status = 403]_vars

\* C29 witness: the job has just run on a collection that held a record it
\* had to delete, and a record of a token that has not expired is still there.
C29_Witness ==
    /\ ran = now
    /\ \E rec \in revoked : now < rec.expiration_time
    /\ \E rec \in StoredRecords : rec.expiration_time < delete_older_than /\ rec \notin revoked

Overdue == {rec \in revoked : rec.expiration_time + ONE_DAY < now}

\* C30: while the job keeps firing, a blacklist record whose expiration time
\* is more than one day in the past is eventually deleted.
C30_OverdueEventuallyDeleted == (Overdue # {}) ~> (Overdue = {})

====
